---- MODULE Spec2Model ----
(***************************************************************************)
(* Shade-aware routing engine of uv-shade-map-app.                         *)
(*                                                                         *)
(* Numbers.  The program computes in IEEE doubles; the model computes in   *)
(* exact integers:                                                         *)
(*   - a coordinate is an integer count of 0.0000005 degree, so that the   *)
(*     grid step gridSize (0.0001 degree in the source) is 200 units;      *)
(*   - a distance is an integer count of half centimetres.                 *)
(*     calculateDistance (haversine) is taken in its small-area form at    *)
(*     the latitude of Tokyo: one coordinate unit is 11 half centimetres   *)
(*     of latitude and 9 of longitude, and the square root is rounded      *)
(*     down;                                                               *)
(*   - the search costs g, h, f are counted in quarter centimetres, which  *)
(*     makes the 0.5 shade factor exact;                                   *)
(*   - a ratio (maxDetour, alpha, a percentage before rounding) is kept    *)
(*     as numerator and denominator, and Math.round is computed exactly.   *)
(***************************************************************************)
EXTENDS Integers, Sequences, FiniteSets, TLC

VARIABLES
    \* generateShadeOptimizedRoute, generateRouteOptions: the arguments
    start, end, shadows, buildings, options,
    \* generateShadeOptimizedRoute: its locals and its return value
    openSet, closedSet, iterations, pc, path,
    \* the last node taken from the open set (history, for the properties)
    current,
    \* the sun position that getSunPosition (SunCalc) returns for the call
    sunPosition,
    \* generateRouteOptions: its return value
    routeOptions,
    \* analyzeRouteShade: its route argument and its return value
    route, analysis,
    \* findOptimalShadeRoute: its arguments and its return value
    routes, alpha, optimal,
    \* a call of one of the other library functions: its arguments and its
    \* return value
    args, result,
    \* calculateShadePercentage: the local variables of its loops
    locals

pathVars == <<start, end, shadows, buildings, options,
              openSet, closedSet, iterations, pc, path, current>>

vars == <<pathVars, sunPosition, routeOptions, route, analysis,
          routes, alpha, optimal, args, result, locals>>

\* the value of a variable that the specification at hand does not use
Unused == "unused"

-----------------------------------------------------------------------------
(* Arithmetic helpers *)

RECURSIVE SqrtSearch(_, _, _)
SqrtSearch(n, lo, hi) ==
    IF lo >= hi THEN lo
    ELSE LET mid == (lo + hi + 1) \div 2
         IN  IF mid * mid <= n THEN SqrtSearch(n, mid, hi)
                               ELSE SqrtSearch(n, lo, mid - 1)

\* Math.sqrt, rounded down (the arguments stay below 2^31)
Sqrt(n) == SqrtSearch(n, 0, 46340)

\* Math.round(a / b) for b > 0: the nearest integer, a half rounding up
MathRound(a, b) == (2 * a + b) \div (2 * b)

Point(lat, lon) == [latitude |-> lat, longitude |-> lon]

-----------------------------------------------------------------------------
(* routing/geometry.ts *)

\* half centimetres per coordinate unit, along a meridian and along a parallel
LatScale == 11
LonScale == 9

\* calculateDistance(lat1, lon1, lat2, lon2), in half centimetres
calculateDistance(lat1, lon1, lat2, lon2) ==
    LET dLat == LatScale * (lat2 - lat1)
        dLon == LonScale * (lon2 - lon1)
    IN  Sqrt(dLat * dLat + dLon * dLon)

\* One edge test of the ray casting loop: does the edge polygon[j] -> polygon[i]
\* cross the ray from point towards larger longitude?  The source's
\*   x < (xj - xi) * (y - yi) / (yj - yi) + xi
\* is multiplied through by (yj - yi), which is nonzero when the first
\* conjunct holds.
EdgeCrosses(point, pi, pj) ==
    LET xi == pi.longitude
        yi == pi.latitude
        xj == pj.longitude
        yj == pj.latitude
        x  == point.longitude
        y  == point.latitude
    IN  /\ (yi > y) # (yj > y)
        /\ IF yj - yi > 0
           THEN (x - xi) * (yj - yi) < (xj - xi) * (y - yi)
           ELSE (x - xi) * (yj - yi) > (xj - xi) * (y - yi)

\* isPointInsidePolygon(point, polygon): odd number of crossings
isPointInsidePolygon(point, polygon) ==
    LET n == Len(polygon)
        crossings == {i \in 1..n :
                        EdgeCrosses(point, polygon[i],
                                    polygon[IF i = 1 THEN n ELSE i - 1])}
    IN  Cardinality(crossings) % 2 = 1

RECURSIVE calculateRouteDistance(_)
calculateRouteDistance(coords) ==
    IF Len(coords) < 2 THEN 0
    ELSE calculateDistance(coords[1].latitude, coords[1].longitude,
                           coords[2].latitude, coords[2].longitude)
         + calculateRouteDistance(Tail(coords))

-----------------------------------------------------------------------------
(* advanced-shade-calculator.ts *)

\* isPointInShade(point, shadows): inside any shadow polygon
isPointInShade(point, shadowList) ==
    \E k \in 1..Len(shadowList) :
        isPointInsidePolygon(point, shadowList[k].coordinates)

\* (mutant) twilight counts as day
isSunAboveHorizon_Twilight(sun) == sun.altitude > -15

\* isSunAboveHorizon(sunPosition)
isSunAboveHorizon(sun) == sun.altitude > 0

\* A SunPosition holds the altitude in degrees, tan(altitude) as the ratio
\* tanNum / tanDen, and sin and cos of the azimuth (north = 0, clockwise) in
\* fifths.
AzimuthScale == 5

SunPosition(altitude, tanNum, tanDen, sinAz, cosAz) ==
    [altitude |-> altitude, tanNum |-> tanNum, tanDen |-> tanDen,
     sinAz |-> sinAz, cosAz |-> cosAz]

\* half centimetres in a metre; the 500 m cutoff of a shadow's length
HalfCmPerMetre == 200
MaxShadowMetres == 500

\* "building.height / Math.tan(sunPosition.altitude)", in half centimetres
shadowLength(building, sun) ==
    (building.height * HalfCmPerMetre * sun.tanDen) \div sun.tanNum

\* (mutant) no upper limit on the shadow's length
castsShadow_NoCutoff(building, sun) ==
    /\ isSunAboveHorizon(sun)
    /\ shadowLength(building, sun) > 0

\* calculateBuildingShadow returns a polygon (not null)
castsShadow(building, sun) ==
    /\ isSunAboveHorizon(sun)
    /\ ~(shadowLength(building, sun) <= 0
         \/ shadowLength(building, sun) > MaxShadowMetres * HalfCmPerMetre)

RECURSIVE Reverse(_)
Reverse(seq) ==
    IF seq = <<>> THEN <<>> ELSE Append(Reverse(Tail(seq)), Head(seq))

\* "Math.min(0.8, 0.3 + (altitudeDegrees / 90) * 0.5)", in thousandths
shadowOpacity(sun) ==
    LET o == 300 + (sun.altitude * 500) \div 90
    IN  IF o < 800 THEN o ELSE 800

\* calculateBuildingShadow(building, sunPosition, latitude), where it is not
\* null: the footprint followed by the reversed offset footprint.  The shadow
\* points away from the sun (azimuth + pi); the offsets are in coordinate units.
calculateBuildingShadow(building, sun) ==
    LET latOffset == (shadowLength(building, sun) * (0 - sun.cosAz))
                        \div (AzimuthScale * LatScale)
        lngOffset == (shadowLength(building, sun) * (0 - sun.sinAz))
                        \div (AzimuthScale * LonScale)
        shadowCoordinates ==
            [i \in 1..Len(building.coordinates) |->
                Point(building.coordinates[i].latitude + latOffset,
                      building.coordinates[i].longitude + lngOffset)]
    IN  [buildingId |-> building.id,
         coordinates |-> building.coordinates \o Reverse(shadowCoordinates),
         opacity |-> shadowOpacity(sun)]

RECURSIVE ShadowsOf(_, _)
ShadowsOf(buildingList, sun) ==
    IF buildingList = <<>> THEN <<>>
    ELSE (IF castsShadow(Head(buildingList), sun)
          THEN <<calculateBuildingShadow(Head(buildingList), sun)>>
          ELSE <<>>)
         \o ShadowsOf(Tail(buildingList), sun)

\* calculateAllShadows(buildings, sunPosition, centerLatitude)
calculateAllShadows(buildingList, sun) ==
    IF ~isSunAboveHorizon(sun) THEN <<>> ELSE ShadowsOf(buildingList, sun)

-----------------------------------------------------------------------------
(* routing/pathfinder.ts: calculateRouteShadePercentage *)

\* "sampleInterval: number = 10", in half centimetres
sampleInterval == 2000

\* Math.ceil(a / b) for a >= 0, b > 0
Ceil(a, b) == (a + b - 1) \div b

\* the samples of one edge, j = 0..numSamples
EdgeSamples(p, q) ==
    LET segmentDistance == calculateDistance(p.latitude, p.longitude,
                                             q.latitude, q.longitude)
        c == Ceil(segmentDistance, sampleInterval)
        numSamples == IF c > 1 THEN c ELSE 1
    IN  [j \in 1..(numSamples + 1) |->
            Point(p.latitude + ((q.latitude - p.latitude) * (j - 1)) \div numSamples,
                  p.longitude + ((q.longitude - p.longitude) * (j - 1)) \div numSamples)]

\* (mutant) the samples outside every shadow are the ones counted
RECURSIVE CountShaded_Inverted(_, _)
CountShaded_Inverted(points, shadowList) ==
    IF points = <<>> THEN 0
    ELSE (IF isPointInShade(Head(points), shadowList) THEN 0 ELSE 1)
         + CountShaded_Inverted(Tail(points), shadowList)

RECURSIVE CountShaded(_, _)
CountShaded(points, shadowList) ==
    IF points = <<>> THEN 0
    ELSE (IF isPointInShade(Head(points), shadowList) THEN 1 ELSE 0)
         + CountShaded(Tail(points), shadowList)

\* totalPoints and shadedPoints after the loops
RECURSIVE SampleCounts(_, _)
SampleCounts(coords, shadowList) ==
    IF Len(coords) < 2 THEN [totalPoints |-> 0, shadedPoints |-> 0]
    ELSE LET samples == EdgeSamples(coords[1], coords[2])
             rest == SampleCounts(Tail(coords), shadowList)
         IN  [totalPoints |-> Len(samples) + rest.totalPoints,
              shadedPoints |-> CountShaded(samples, shadowList) + rest.shadedPoints]

\* calculateRouteShadePercentage(route, shadows), as the ratio num / den
calculateRouteShadePercentage(coords, shadowList) ==
    IF Len(coords) < 2 \/ Len(shadowList) = 0 THEN [num |-> 0, den |-> 1]
    ELSE LET n == SampleCounts(coords, shadowList)
         IN  IF n.totalPoints > 0
             THEN [num |-> n.shadedPoints * 100, den |-> n.totalPoints]
             ELSE [num |-> 0, den |-> 1]

-----------------------------------------------------------------------------
(* routing/pathfinder.ts: generateDirectRoute *)

numPoints == 20

RECURSIVE DirectRoutePoints(_, _, _)
DirectRoutePoints(s, e, i) ==
    IF i > numPoints THEN <<>>
    ELSE <<Point(s.latitude + ((e.latitude - s.latitude) * i) \div numPoints,
                 s.longitude + ((e.longitude - s.longitude) * i) \div numPoints)>>
         \o DirectRoutePoints(s, e, i + 1)

\* generateDirectRoute(start, end): start + (end - start) * i / 20, i = 0..20
generateDirectRoute(s, e) == DirectRoutePoints(s, e, 0)

-----------------------------------------------------------------------------
(* routing/pathfinder.ts: generateShadeOptimizedRoute *)

\* the grid step, in coordinate units (0.0001 degree)
gridSize == 200

\* the loop's budget.  The source allows 5000 iterations; the model scales the
\* budget down with the size of the areas it searches, so that a search can
\* use it up.
maxIterations == 24

\* "dist < 20": the goal radius of isNearEnd, in half centimetres
GoalRadius == 4000

\* options.maxDetour is a ratio; the model holds it in percent
Percent == 100

\* (mutant) the first direction jumps over a cell
directions_WithJump ==
    << <<0, 2>>, <<1, 0>>, <<0, -1>>, <<-1, 0>>,
       <<1, 1>>, <<1, -1>>, <<-1, 1>>, <<-1, -1>> >>

directions ==
    << <<0, 1>>, <<1, 0>>, <<0, -1>>, <<-1, 0>>,
       <<1, 1>>, <<1, -1>>, <<-1, 1>>, <<-1, -1>> >>

\* directDistance, in half centimetres
directDistance(s, e) ==
    calculateDistance(s.latitude, s.longitude, e.latitude, e.longitude)

\* maxDistance = directDistance * (1 + options.maxDetour), times Percent
maxDistance(s, e, opts) == directDistance(s, e) * (Percent + opts.maxDetour)

\* getKey(lat, lon): the rounded grid indices
getKey(lat, lon) == <<MathRound(lat, gridSize), MathRound(lon, gridSize)>>

\* isNearEnd(lat, lon)
isNearEnd(lat, lon, e) ==
    calculateDistance(lat, lon, e.latitude, e.longitude) < GoalRadius

\* (mutant) only the first building is tested
isInsideBuilding_FirstOnly(point, buildingList) ==
    /\ Len(buildingList) > 0
    /\ isPointInsidePolygon(point, buildingList[1].coordinates)

\* The test getNeighbors makes of one candidate cell
isInsideBuilding(point, buildingList) ==
    \E k \in 1..Len(buildingList) :
        isPointInsidePolygon(point, buildingList[k].coordinates)

RECURSIVE NeighborsFrom(_, _, _)
NeighborsFrom(node, buildingList, d) ==
    IF d > Len(directions) THEN <<>>
    ELSE LET newLat == node.lat + directions[d][1] * gridSize
             newLon == node.lon + directions[d][2] * gridSize
             p == Point(newLat, newLon)
         IN  (IF isInsideBuilding(p, buildingList) THEN <<>> ELSE <<p>>)
             \o NeighborsFrom(node, buildingList, d + 1)

\* getNeighbors(node): the 8 neighbours, less those inside a building
getNeighbors(node, buildingList) == NeighborsFrom(node, buildingList, 1)

\* getShadeCost(point), in halves: 1 is the source's 0.5, 2 its 1.0
getShadeCost(point, shadowList) ==
    IF isPointInShade(point, shadowList) THEN 1 ELSE 2

\* "options.prioritizeShade ? getShadeCost(neighbor) : 1.0", in halves
shadeCost(point, shadowList, opts) ==
    IF opts.prioritizeShade THEN getShadeCost(point, shadowList) ELSE 2

\* (mutant) the distance that remains to end is left out of the estimate
exceedsMaxDistance_CostOnly(g, neighbor, s, e, opts) ==
    g * Percent > 2 * maxDistance(s, e, opts)

\* "if (totalEstimated > maxDistance) continue", g in quarter centimetres
exceedsMaxDistance(g, neighbor, s, e, opts) ==
    LET totalEstimated ==
            g + 2 * calculateDistance(neighbor.latitude, neighbor.longitude,
                                      e.latitude, e.longitude)
    IN  totalEstimated * Percent > 2 * maxDistance(s, e, opts)

\* openSet.find(n => getKey(n.lat, n.lon) === neighborKey): its index, or 0
RECURSIVE FindIndex(_, _, _)
FindIndex(open, key, i) ==
    IF i > Len(open) THEN 0
    ELSE IF getKey(open[i].lat, open[i].lon) = key THEN i
    ELSE FindIndex(open, key, i + 1)

\* (mutant) the sort puts a node before the nodes of equal f
RECURSIVE InsertByF_TiesReversed(_, _)
InsertByF_TiesReversed(sorted, node) ==
    IF sorted = <<>> THEN <<node>>
    ELSE IF Head(sorted).f < node.f
         THEN <<Head(sorted)>> \o InsertByF_TiesReversed(Tail(sorted), node)
         ELSE <<node>> \o sorted

\* openSet.sort((a, b) => a.f - b.f): a stable sort on f
RECURSIVE InsertByF(_, _)
InsertByF(sorted, node) ==
    IF sorted = <<>> THEN <<node>>
    ELSE IF Head(sorted).f <= node.f
         THEN <<Head(sorted)>> \o InsertByF(Tail(sorted), node)
         ELSE <<node>> \o sorted

\* (mutant) the open set is left in the order of insertion
SortByF_NoSort(open) == open

RECURSIVE SortByF(_)
SortByF(open) ==
    IF open = <<>> THEN <<>>
    ELSE InsertByF(SortByF(SubSeq(open, 1, Len(open) - 1)), open[Len(open)])

\* A node: lat, lon, g, h, f and parent.  The parent pointer is held as the
\* chain of the ancestors' coordinates, the root first.
startNode(s, e) ==
    [lat |-> s.latitude, lon |-> s.longitude,
     g |-> 0, h |-> 2 * directDistance(s, e), f |-> 2 * directDistance(s, e),
     parent |-> <<>>]

\* (mutant) a neighbour whose cell is closed is not skipped
VisitNeighbor_IgnoresClosed(open, closed, cur, neighbor, s, e, shadowList, opts) ==
    LET neighborKey == getKey(neighbor.latitude, neighbor.longitude)
        stepDistance == calculateDistance(cur.lat, cur.lon,
                                          neighbor.latitude, neighbor.longitude)
        g == cur.g + stepDistance * shadeCost(neighbor, shadowList, opts)
        h == 2 * calculateDistance(neighbor.latitude, neighbor.longitude,
                                   e.latitude, e.longitude)
        index == FindIndex(open, neighborKey, 1)
        newNode == [lat |-> neighbor.latitude, lon |-> neighbor.longitude,
                    g |-> g, h |-> h, f |-> g + h,
                    parent |-> Append(cur.parent, Point(cur.lat, cur.lon))]
    IN  IF exceedsMaxDistance(g, neighbor, s, e, opts) THEN open
        ELSE IF index = 0 THEN Append(open, newNode)
        ELSE IF g < open[index].g THEN [open EXCEPT ![index] = newNode]
        ELSE open

\* The body of "for (const neighbor of getNeighbors(current))" for one neighbour
VisitNeighbor(open, closed, cur, neighbor, s, e, shadowList, opts) ==
    LET neighborKey == getKey(neighbor.latitude, neighbor.longitude)
        stepDistance == calculateDistance(cur.lat, cur.lon,
                                          neighbor.latitude, neighbor.longitude)
        g == cur.g + stepDistance * shadeCost(neighbor, shadowList, opts)
        h == 2 * calculateDistance(neighbor.latitude, neighbor.longitude,
                                   e.latitude, e.longitude)
        index == FindIndex(open, neighborKey, 1)
        newNode == [lat |-> neighbor.latitude, lon |-> neighbor.longitude,
                    g |-> g, h |-> h, f |-> g + h,
                    parent |-> Append(cur.parent, Point(cur.lat, cur.lon))]
    IN  IF neighborKey \in closed THEN open
        ELSE IF exceedsMaxDistance(g, neighbor, s, e, opts) THEN open
        ELSE IF index = 0 THEN Append(open, newNode)
        ELSE IF g < open[index].g THEN [open EXCEPT ![index] = newNode]
        ELSE open

RECURSIVE VisitNeighbors(_, _, _, _, _, _, _, _)
VisitNeighbors(open, closed, cur, neighbors, s, e, shadowList, opts) ==
    IF neighbors = <<>> THEN open
    ELSE VisitNeighbors(
            VisitNeighbor(open, closed, cur, Head(neighbors), s, e, shadowList, opts),
            closed, cur, Tail(neighbors), s, e, shadowList, opts)

\* (mutant) end is not appended
ReconstructPath_NoEnd(node, e) ==
    Append(node.parent, Point(node.lat, node.lon))

\* "Path reconstruction": the parent chain, the node, then end
ReconstructPath(node, e) ==
    Append(Append(node.parent, Point(node.lat, node.lon)), e)

\* The state of one call: the locals, the position and the return value
SearchStart(s, e) ==
    [openSet |-> <<startNode(s, e)>>, closedSet |-> {}, iterations |-> 0,
     pc |-> "loop", path |-> <<>>, current |-> startNode(s, e)]

\* (mutant) the budget is compared with <=
LoopCondition_OffByOne(st) ==
    Len(st.openSet) > 0 /\ st.iterations <= maxIterations

\* "while (openSet.length > 0 && iterations < maxIterations)"
LoopCondition(st) ==
    Len(st.openSet) > 0 /\ st.iterations < maxIterations

\* One iteration of the while loop
LoopIteration(st, s, e, shadowList, buildingList, opts) ==
    LET sorted == SortByF(st.openSet)
        cur == Head(sorted)
        rest == Tail(sorted)
        currentKey == getKey(cur.lat, cur.lon)
        closed == st.closedSet \cup {currentKey}
    IN  IF isNearEnd(cur.lat, cur.lon, e)
        THEN [st EXCEPT !.openSet = rest, !.iterations = @ + 1, !.current = cur,
                        !.pc = "reconstructed", !.path = ReconstructPath(cur, e)]
        ELSE IF currentKey \in st.closedSet
        THEN [st EXCEPT !.openSet = rest, !.iterations = @ + 1, !.current = cur]
        ELSE [st EXCEPT !.openSet = VisitNeighbors(rest, closed, cur,
                                        getNeighbors(cur, buildingList),
                                        s, e, shadowList, opts),
                        !.closedSet = closed,
                        !.iterations = @ + 1, !.current = cur]

\* "return generateDirectRoute(start, end)" after the loop
ReturnDirectRoute(st, s, e) ==
    [st EXCEPT !.pc = "direct", !.path = generateDirectRoute(s, e)]

RECURSIVE RunSearch(_, _, _, _, _, _)
RunSearch(st, s, e, shadowList, buildingList, opts) ==
    IF st.pc # "loop" THEN st
    ELSE IF LoopCondition(st)
    THEN RunSearch(LoopIteration(st, s, e, shadowList, buildingList, opts),
                   s, e, shadowList, buildingList, opts)
    ELSE ReturnDirectRoute(st, s, e)

\* generateShadeOptimizedRoute(start, end, shadows, buildings, options)
generateShadeOptimizedRoute(s, e, shadowList, buildingList, opts) ==
    RunSearch(SearchStart(s, e), s, e, shadowList, buildingList, opts).path

-----------------------------------------------------------------------------
(* routing/route-generator.ts: generateRouteOptions *)

\* DEFAULT_OPTIONS: maxDetour in percent, walkingSpeed in tenths of km/h
DEFAULT_OPTIONS == [prioritizeShade |-> TRUE, maxDetour |-> 30, walkingSpeed |-> 45]

\* Math.round(100 - p) for the ratio p
RoundedUvExposure(p) == MathRound(100 * p.den - p.num, p.den)

\* Math.round(p) for the ratio p
RoundedShadePercentage(p) == MathRound(p.num, p.den)

\* Math.round(distance / (DEFAULT_OPTIONS.walkingSpeed * 1000 / 60)), the
\* distance in half centimetres, the result in minutes
EstimatedDuration(distance) ==
    MathRound(distance * 600, HalfCmPerMetre * DEFAULT_OPTIONS.walkingSpeed * 1000)

\* one element of routes, as routes.push({...}) builds it
RouteOption(id, name, coords, distance, p) ==
    [id |-> id, name |-> name, segments |-> <<>>,
     totalDistance |-> MathRound(distance, HalfCmPerMetre),
     estimatedDuration |-> EstimatedDuration(distance),
     shadePercentage |-> RoundedShadePercentage(p),
     uvExposure |-> RoundedUvExposure(p),
     coordinates |-> coords]

\* (mutant) the comparator is a.shadePercentage - b.shadePercentage
RECURSIVE InsertByShade_Ascending(_, _)
InsertByShade_Ascending(sorted, r) ==
    IF sorted = <<>> THEN <<r>>
    ELSE IF Head(sorted).shadePercentage <= r.shadePercentage
         THEN <<Head(sorted)>> \o InsertByShade_Ascending(Tail(sorted), r)
         ELSE <<r>> \o sorted

\* routes.sort((a, b) => b.shadePercentage - a.shadePercentage): stable
RECURSIVE InsertByShade(_, _)
InsertByShade(sorted, r) ==
    IF sorted = <<>> THEN <<r>>
    ELSE IF Head(sorted).shadePercentage >= r.shadePercentage
         THEN <<Head(sorted)>> \o InsertByShade(Tail(sorted), r)
         ELSE <<r>> \o sorted

RECURSIVE SortByShade(_)
SortByShade(rs) ==
    IF rs = <<>> THEN <<>>
    ELSE InsertByShade(SortByShade(SubSeq(rs, 1, Len(rs) - 1)), rs[Len(rs)])

\* generateRouteOptions(start, end, buildings, time); sun is the position
\* getSunPosition returns for time at start
generateRouteOptions(s, e, buildingList, sun) ==
    LET shadowList == IF isSunAboveHorizon(sun)
                      THEN calculateAllShadows(buildingList, sun)
                      ELSE <<>>
        shadeRoute == generateShadeOptimizedRoute(s, e, shadowList, buildingList,
                        [DEFAULT_OPTIONS EXCEPT !.prioritizeShade = TRUE, !.maxDetour = 30])
        balancedRoute == generateShadeOptimizedRoute(s, e, shadowList, buildingList,
                        [DEFAULT_OPTIONS EXCEPT !.prioritizeShade = TRUE, !.maxDetour = 15])
        directRoute == generateDirectRoute(s, e)
        pushed ==
            << RouteOption("shade-priority", "shade priority route", shadeRoute,
                           calculateRouteDistance(shadeRoute),
                           calculateRouteShadePercentage(shadeRoute, shadowList)),
               RouteOption("balanced", "balanced route", balancedRoute,
                           calculateRouteDistance(balancedRoute),
                           calculateRouteShadePercentage(balancedRoute, shadowList)),
               RouteOption("fastest", "shortest route", directRoute,
                           directDistance(s, e),
                           calculateRouteShadePercentage(directRoute, shadowList)) >>
        sorted == SortByShade(pushed)
    IN  [sorted EXCEPT ![1].name = "shade priority route (recommended)"]

-----------------------------------------------------------------------------
(* scientific-uv-calculator.ts: analyzeRouteShade *)

\* the NaN that Math.round(0 / 0 * 100) yields; every other value of the
\* fields it can appear in is at least 0
NaN == -1

\* isPointInPolygon(point, polygon) of this file: the same ray casting on
\* {x: longitude, y: latitude}
isPointInPolygonXY(point, polygon) ==
    LET n == Len(polygon)
        crossings == {i \in 1..n :
                        EdgeCrosses(point, polygon[i],
                                    polygon[IF i = 1 THEN n ELSE i - 1])}
    IN  Cardinality(crossings) % 2 = 1

\* isPointInShade(point, shadows) of this file
isPointInShadeXY(point, shadowList) ==
    \E k \in 1..Len(shadowList) :
        isPointInPolygonXY(point, shadowList[k].coordinates)

\* the midpoint of a segment
midPoint(p1, p2) ==
    Point((p1.latitude + p2.latitude) \div 2, (p1.longitude + p2.longitude) \div 2)

\* totalDistance and shadedDistance after the loop over the segments
RECURSIVE SegmentTotals(_, _)
SegmentTotals(geometry, shadowList) ==
    IF Len(geometry) < 2 THEN [totalDistance |-> 0, shadedDistance |-> 0]
    ELSE LET p1 == geometry[1]
             p2 == geometry[2]
             segmentDistance == calculateDistance(p1.latitude, p1.longitude,
                                                  p2.latitude, p2.longitude)
             rest == SegmentTotals(Tail(geometry), shadowList)
         IN  [totalDistance |-> segmentDistance + rest.totalDistance,
              shadedDistance |->
                (IF isPointInShadeXY(midPoint(p1, p2), shadowList)
                 THEN segmentDistance ELSE 0) + rest.shadedDistance]

\* "isRecommended: shadePercentage > 50", on the percentage before rounding
IsRecommended(shadedDistance, totalDistance) ==
    /\ totalDistance > 0
    /\ shadedDistance * 100 > 50 * totalDistance

\* analyzeRouteShade(route, buildings, currentTime); sun is the position
\* getSunPosition returns for currentTime at route.geometry[0].  Distances
\* are reported in metres.
analyzeRouteShade(r, buildingList, sun) ==
    IF ~isSunAboveHorizon(sun)
    THEN [route |-> r, shadePercentage |-> 100, shadedDistance |-> r.distance,
          exposedDistance |-> 0, uvExposure |-> 0, isRecommended |-> TRUE]
    ELSE LET shadowList == calculateAllShadows(buildingList, sun)
             t == SegmentTotals(r.geometry, shadowList)
             exposedDistance == t.totalDistance - t.shadedDistance
         IN  [route |-> r,
              shadePercentage |->
                 IF t.totalDistance > 0
                 THEN MathRound(t.shadedDistance * 100, t.totalDistance)
                 ELSE 0,
              shadedDistance |-> MathRound(t.shadedDistance, HalfCmPerMetre),
              exposedDistance |-> MathRound(exposedDistance, HalfCmPerMetre),
              uvExposure |->
                 IF t.totalDistance > 0
                 THEN MathRound(exposedDistance * 100, t.totalDistance)
                 ELSE NaN,
              isRecommended |-> IsRecommended(t.shadedDistance, t.totalDistance)]

-----------------------------------------------------------------------------
(* coolwalks-routing.ts *)

\* alpha is held in tenths, and so is every experienced length
AlphaScale == 10

\* (mutant) the shaded distance is left out
calculateExperiencedLength_SunOnly(sunDistance, shadeDistance, a) ==
    sunDistance * a

\* calculateExperiencedLength(sunDistance, shadeDistance, alpha), in tenths
calculateExperiencedLength(sunDistance, shadeDistance, a) ==
    sunDistance * a + shadeDistance * AlphaScale

RECURSIVE calculateRouteExperiencedLength(_, _)
calculateRouteExperiencedLength(r, a) ==
    IF r.segments = <<>> THEN 0
    ELSE calculateExperiencedLength(Head(r.segments).sunDistance,
                                    Head(r.segments).shadeDistance, a)
         + calculateRouteExperiencedLength([r EXCEPT !.segments = Tail(@)], a)

RECURSIVE SumField(_, _)
SumField(segments, field) ==
    IF segments = <<>> THEN 0
    ELSE Head(segments)[field] + SumField(Tail(segments), field)

\* aggregateRouteInfo(segments); shadeRatio as the ratio num / den
aggregateRouteInfo(segments) ==
    LET totalDistance == SumField(segments, "totalDistance")
        totalSunDistance == SumField(segments, "sunDistance")
        totalShadeDistance == SumField(segments, "shadeDistance")
    IN  [totalDistance |-> totalDistance,
         totalSunDistance |-> totalSunDistance,
         totalShadeDistance |-> totalShadeDistance,
         shadeRatio |-> IF totalDistance > 0
                        THEN [num |-> totalShadeDistance, den |-> totalDistance]
                        ELSE [num |-> 0, den |-> 1],
         estimatedTime |-> MathRound(totalDistance * 10, 833)]

\* (mutant) "length <= minExperienced": the last minimum wins
MinIndexFrom_LastWins(lengths, i, minExperienced, optimalIndex) ==
    LET RECURSIVE Go(_, _, _)
        Go(k, m, o) ==
            IF k > Len(lengths) THEN o
            ELSE IF m = -1 \/ lengths[k] <= m THEN Go(k + 1, lengths[k], k)
            ELSE Go(k + 1, m, o)
    IN  Go(i, minExperienced, optimalIndex)

\* the forEach that finds the minimum, from index i on; minExperienced = -1
\* stands for the initial Infinity.  Indices count from 1.
RECURSIVE MinIndexFrom(_, _, _, _)
MinIndexFrom(lengths, i, minExperienced, optimalIndex) ==
    IF i > Len(lengths) THEN optimalIndex
    ELSE IF minExperienced = -1 \/ lengths[i] < minExperienced
         THEN MinIndexFrom(lengths, i + 1, lengths[i], i)
         ELSE MinIndexFrom(lengths, i + 1, minExperienced, optimalIndex)

\* ".sort((a, b) => a.length - b.length)" on {length, index}: stable
RECURSIVE InsertByLength(_, _)
InsertByLength(sorted, item) ==
    IF sorted = <<>> THEN <<item>>
    ELSE IF Head(sorted).length <= item.length
         THEN <<Head(sorted)>> \o InsertByLength(Tail(sorted), item)
         ELSE <<item>> \o sorted

RECURSIVE SortByLength(_)
SortByLength(items) ==
    IF items = <<>> THEN <<>>
    ELSE InsertByLength(SortByLength(SubSeq(items, 1, Len(items) - 1)),
                        items[Len(items)])

\* findOptimalShadeRoute(routes, alpha) for a non-empty list (an empty one
\* throws).  optimalIndex and the positions of rankings count from 1.
findOptimalShadeRoute(rs, a) ==
    LET experiencedLengths ==
            [i \in 1..Len(rs) |-> calculateRouteExperiencedLength(rs[i], a)]
        optimalIndex == MinIndexFrom(experiencedLengths, 1, -1, 1)
        sortedIndices ==
            LET sorted == SortByLength([i \in 1..Len(rs) |->
                            [length |-> experiencedLengths[i], index |-> i]])
            IN  [k \in 1..Len(rs) |-> sorted[k].index]
        rankings ==
            [i \in 1..Len(rs) |->
                CHOOSE rank \in 1..Len(rs) : sortedIndices[rank] = i]
    IN  [optimalIndex |-> optimalIndex,
         optimalRoute |-> rs[optimalIndex],
         experiencedLengths |-> experiencedLengths,
         rankings |-> rankings]

-----------------------------------------------------------------------------
(* The calls of generateShadeOptimizedRoute that are explored *)

Rect(latMin, lonMin, latMax, lonMax) ==
    <<Point(latMin, lonMin), Point(latMax, lonMin),
      Point(latMax, lonMax), Point(latMin, lonMax)>>

Building(id, coordinates, height) ==
    [id |-> id, coordinates |-> coordinates, height |-> height]

ShadowPolygon(id, coordinates, opacity) ==
    [buildingId |-> id, coordinates |-> coordinates, opacity |-> opacity]

\* the coordinates are multiples of numPoints, which keeps the interpolation
\* of generateDirectRoute exact
StartPoints == {Point(0, 0), Point(80, -60)}

EndPoints ==
    {Point(0, 1200), Point(660, 940), Point(200, -200), Point(-800, 0),
     Point(1400, 600)}

\* a wall across the straight line to the east, and a block that covers
\* every cell within the goal radius of Point(0, 1200)
Wall == Building("wall", Rect(-300, 500, 300, 700), 30)
Block == Building("block", Rect(-560, 640, 560, 1760), 30)

\* a building that both start points lie in
Home == Building("home", Rect(-100, -100, 100, 100), 10)

\* a building on one cell of the way to Point(1400, 600)
Pillar == Building("pillar", Rect(700, 300, 900, 500), 30)

BuildingLists ==
    {<<>>, <<Wall>>, <<Block>>, <<Wall, Block>>, <<Home, Wall>>, <<Pillar>>}

\* a shaded strip north of the straight line to the east, and a shaded
\* square north-east of the start
Strip == ShadowPolygon("strip", Rect(100, 100, 300, 1100), 55)
Square == ShadowPolygon("square", Rect(100, 100, 700, 700), 55)

ShadowLists == {<<>>, <<Strip>>, <<Square, Strip>>}

RouteOptions ==
    [prioritizeShade : BOOLEAN, maxDetour : {0, 15, 30, 100}, walkingSpeed : {45}]

Init ==
    /\ start \in StartPoints
    /\ end \in EndPoints
    /\ shadows \in ShadowLists
    /\ buildings \in BuildingLists
    /\ options \in RouteOptions
    /\ openSet = SearchStart(start, end).openSet
    /\ closedSet = SearchStart(start, end).closedSet
    /\ iterations = SearchStart(start, end).iterations
    /\ pc = SearchStart(start, end).pc
    /\ path = SearchStart(start, end).path
    /\ current = SearchStart(start, end).current
    /\ sunPosition = Unused
    /\ routeOptions = Unused
    /\ route = Unused
    /\ analysis = Unused
    /\ routes = Unused
    /\ alpha = Unused
    /\ optimal = Unused
    /\ args = Unused
    /\ result = Unused
    /\ locals = Unused

SearchState ==
    [openSet |-> openSet, closedSet |-> closedSet, iterations |-> iterations,
     pc |-> pc, path |-> path, current |-> current]

SetSearchState(st) ==
    /\ openSet' = st.openSet
    /\ closedSet' = st.closedSet
    /\ iterations' = st.iterations
    /\ pc' = st.pc
    /\ path' = st.path
    /\ current' = st.current

\* one pass through the body of the while loop
Iterate ==
    /\ pc = "loop"
    /\ LoopCondition(SearchState)
    /\ SetSearchState(LoopIteration(SearchState, start, end, shadows, buildings, options))
    /\ UNCHANGED <<start, end, shadows, buildings, options>>
    /\ UNCHANGED <<sunPosition, routeOptions, route, analysis, routes, alpha, optimal>>
    /\ UNCHANGED <<args, result, locals>>

\* the loop is left without a path: the straight line is returned
ReturnDirect ==
    /\ pc = "loop"
    /\ ~LoopCondition(SearchState)
    /\ SetSearchState(ReturnDirectRoute(SearchState, start, end))
    /\ UNCHANGED <<start, end, shadows, buildings, options>>
    /\ UNCHANGED <<sunPosition, routeOptions, route, analysis, routes, alpha, optimal>>
    /\ UNCHANGED <<args, result, locals>>

Next == Iterate \/ ReturnDirect

Spec == Init /\ [][Next]_vars

-----------------------------------------------------------------------------
(* The sun positions, buildings and routes of the other calls *)

\* night; noon (45 degrees, due south); afternoon (45 degrees, south-west);
\* early morning (about 3 degrees, due east)
Night == SunPosition(-10, -18, 100, 0, -5)
Noon == SunPosition(45, 1, 1, 0, -5)
Afternoon == SunPosition(45, 1, 1, -3, -4)
Morning == SunPosition(3, 1, 20, 5, 0)

SunPositions == {Night, Noon, Afternoon, Morning}

\* low buildings south of the line of latitude 0: at noon South shades the
\* longitudes 100..300 of that line, and Porch shades both start points
South == Building("south", Rect(-150, 100, -50, 300), 10)
Porch == Building("porch", Rect(-150, -100, -50, 100), 10)

-----------------------------------------------------------------------------
(* generateRouteOptions: SpecOptions *)

OptionBuildingLists == BuildingLists \cup {<<Porch>>, <<Porch, Wall>>, <<South>>}

InitOptions ==
    /\ start \in StartPoints
    /\ end \in EndPoints
    /\ buildings \in OptionBuildingLists
    /\ sunPosition \in SunPositions
    /\ pc = "call"
    /\ routeOptions = <<>>
    /\ shadows = Unused
    /\ options = Unused
    /\ openSet = Unused
    /\ closedSet = Unused
    /\ iterations = Unused
    /\ path = Unused
    /\ current = Unused
    /\ route = Unused
    /\ analysis = Unused
    /\ routes = Unused
    /\ alpha = Unused
    /\ optimal = Unused
    /\ args = Unused
    /\ result = Unused
    /\ locals = Unused

GenerateRouteOptions ==
    /\ pc = "call"
    /\ routeOptions' = generateRouteOptions(start, end, buildings, sunPosition)
    /\ pc' = "returned"
    /\ UNCHANGED <<start, end, shadows, buildings, options, openSet, closedSet,
                   iterations, path, current, sunPosition, route, analysis,
                   routes, alpha, optimal>>
    /\ UNCHANGED <<args, result, locals>>

NextOptions == GenerateRouteOptions

SpecOptions == InitOptions /\ [][NextOptions]_vars

-----------------------------------------------------------------------------
(* analyzeRouteShade: SpecAnalysis *)

\* the longest route geometry, in points
MaxGeometry == 3

\* way points on the line of latitude 0
WayPoints == {Point(0, 0), Point(0, 400), Point(0, 402), Point(0, 800), Point(0, 3200)}

\* a Route of route-service.ts; distance is the metres the routing service
\* reports
RouteOf(geometry) ==
    [distance |-> MathRound(calculateRouteDistance(geometry), HalfCmPerMetre),
     duration |-> 0, geometry |-> geometry, steps |-> <<>>]

AnalysisRoutes ==
    {RouteOf(g) : g \in UNION {[1..n -> WayPoints] : n \in 1..MaxGeometry}}

AnalysisBuildingLists == {<<>>, <<South>>, <<Porch, South>>}

InitAnalysis ==
    /\ route \in AnalysisRoutes
    /\ buildings \in AnalysisBuildingLists
    /\ sunPosition \in SunPositions
    /\ pc = "call"
    /\ analysis = Unused
    /\ start = Unused
    /\ end = Unused
    /\ shadows = Unused
    /\ options = Unused
    /\ openSet = Unused
    /\ closedSet = Unused
    /\ iterations = Unused
    /\ path = Unused
    /\ current = Unused
    /\ routeOptions = Unused
    /\ routes = Unused
    /\ alpha = Unused
    /\ optimal = Unused
    /\ args = Unused
    /\ result = Unused
    /\ locals = Unused

AnalyzeRouteShade ==
    /\ pc = "call"
    /\ analysis' = analyzeRouteShade(route, buildings, sunPosition)
    /\ pc' = "returned"
    /\ UNCHANGED <<start, end, shadows, buildings, options, openSet, closedSet,
                   iterations, path, current, sunPosition, routeOptions, route,
                   routes, alpha, optimal>>
    /\ UNCHANGED <<args, result, locals>>

NextAnalysis == AnalyzeRouteShade

SpecAnalysis == InitAnalysis /\ [][NextAnalysis]_vars

-----------------------------------------------------------------------------
(* findOptimalShadeRoute: SpecCoolWalks *)

\* the longest list of candidate routes
MaxRoutes == 3

Segment(sunDistance, shadeDistance) ==
    [sunDistance |-> sunDistance, shadeDistance |-> shadeDistance,
     totalDistance |-> sunDistance + shadeDistance]

\* a Route as the tests build it: the segments and their aggregate
CoolRoute(id, segments) ==
    LET agg == aggregateRouteInfo(segments)
    IN  [id |-> id, segments |-> segments,
         totalDistance |-> agg.totalDistance,
         totalSunDistance |-> agg.totalSunDistance,
         totalShadeDistance |-> agg.totalShadeDistance,
         shadeRatio |-> agg.shadeRatio,
         estimatedTime |-> agg.estimatedTime]

CoolRoutes ==
    {CoolRoute("sunny", <<Segment(150, 50)>>),
     CoolRoute("shady", <<Segment(50, 200)>>),
     CoolRoute("even", <<Segment(100, 100)>>),
     CoolRoute("two", <<Segment(50, 100), Segment(50, 100)>>),
     CoolRoute("shade", <<Segment(0, 200)>>)}

\* alpha = 1.0, 1.5, 2.0
Alphas == {10, 15, 20}

InitCoolWalks ==
    /\ routes \in UNION {[1..n -> CoolRoutes] : n \in 1..MaxRoutes}
    /\ alpha \in Alphas
    /\ pc = "call"
    /\ optimal = Unused
    /\ args = Unused
    /\ result = Unused
    /\ locals = Unused
    /\ start = Unused
    /\ end = Unused
    /\ shadows = Unused
    /\ buildings = Unused
    /\ options = Unused
    /\ openSet = Unused
    /\ closedSet = Unused
    /\ iterations = Unused
    /\ path = Unused
    /\ current = Unused
    /\ sunPosition = Unused
    /\ routeOptions = Unused
    /\ route = Unused
    /\ analysis = Unused

FindOptimalShadeRoute ==
    /\ pc = "call"
    /\ optimal' = findOptimalShadeRoute(routes, alpha)
    /\ pc' = "returned"
    /\ UNCHANGED <<start, end, shadows, buildings, options, openSet, closedSet,
                   iterations, path, current, sunPosition, routeOptions, route,
                   analysis, routes, alpha>>
    /\ UNCHANGED <<args, result, locals>>

NextCoolWalks == FindOptimalShadeRoute

SpecCoolWalks == InitCoolWalks /\ [][NextCoolWalks]_vars

-----------------------------------------------------------------------------
(* Properties of generateShadeOptimizedRoute, under Spec *)

InsideSomeFootprint(point) ==
    \E k \in 1..Len(buildings) :
        isPointInsidePolygon(point, buildings[k].coordinates)

C2_BoundedLoopThenDirect ==
    /\ iterations <= maxIterations
    /\ pc = "reconstructed" => isNearEnd(current.lat, current.lon, end)
    /\ pc = "direct" =>
        /\ openSet = <<>> \/ iterations = maxIterations
        /\ ~isNearEnd(current.lat, current.lon, end)
        /\ Len(path) = numPoints + 1
        /\ \A i \in 1..Len(path) :
            /\ numPoints * (path[i].latitude - start.latitude)
                 = (i - 1) * (end.latitude - start.latitude)
            /\ numPoints * (path[i].longitude - start.longitude)
                 = (i - 1) * (end.longitude - start.longitude)

\* the budget was used up and the straight line returned
C2_Witness ==
    /\ pc = "direct"
    /\ iterations = maxIterations
    /\ openSet # <<>>

\* C3 (as claimed): a reconstructed path, the final hop to end included, is
\* no longer than directDistance * (1 + maxDetour), for every option setting.
C3_DetourBoundsLength ==
    pc = "reconstructed" =>
        calculateRouteDistance(path) * Percent <= maxDistance(start, end, options)

\* C4: with maxDetour = 0 and no shadow, the returned path, reconstructed or
\* straight, is no longer than the direct distance from start to end (the
\* model's distances leave no rounding to tolerate).
C4_NoDetourNoShade ==
    (pc # "loop" /\ options.maxDetour = 0 /\ shadows = <<>>) =>
        calculateRouteDistance(path) <= directDistance(start, end)

\* a path of several grid steps, found with maxDetour = 0 and no shadow
C4_Witness ==
    /\ pc = "reconstructed"
    /\ options.maxDetour = 0
    /\ shadows = <<>>
    /\ Len(path) >= 4

\* C5: no neighbour whose centre lies inside a building footprint is added to
\* the open set or expanded; in a reconstructed path every vertex but the
\* first (start) and the last (end) lies outside all footprints.
C5_NeverInsideBuildings ==
    /\ \A i \in 1..Len(openSet) :
        /\ openSet[i].parent # <<>> =>
            ~InsideSomeFootprint(Point(openSet[i].lat, openSet[i].lon))
        /\ \A j \in 2..Len(openSet[i].parent) :
            ~InsideSomeFootprint(openSet[i].parent[j])
    /\ current.parent # <<>> =>
            ~InsideSomeFootprint(Point(current.lat, current.lon))
    /\ pc = "reconstructed" =>
        \A i \in 2..(Len(path) - 1) : ~InsideSomeFootprint(path[i])

\* a path was reconstructed past a cell that getNeighbors left out, from a
\* start inside a building
C5_Witness ==
    /\ pc = "reconstructed"
    /\ InsideSomeFootprint(start)
    /\ \E i \in 2..(Len(path) - 1) :
        Len(getNeighbors([lat |-> path[i].latitude, lon |-> path[i].longitude],
                         buildings)) < Len(directions)

-----------------------------------------------------------------------------
(* Properties of analyzeRouteShade, under SpecAnalysis *)

\* C6 (as claimed): in every RouteAnalysis that analyzeRouteShade returns,
\* by day or by night, shadePercentage + uvExposure is exactly 100.
C6_ShadePlusUvIs100 ==
    pc = "returned" => analysis.shadePercentage + analysis.uvExposure = 100

\* C8 (as claimed): in every RouteAnalysis that analyzeRouteShade returns,
\* isRecommended is true exactly when the reported shadePercentage exceeds 50.
C8_RecommendedIffOver50 ==
    pc = "returned" => (analysis.isRecommended <=> analysis.shadePercentage > 50)

-----------------------------------------------------------------------------
(* Properties of generateRouteOptions, under SpecOptions *)

\* C7 (as claimed): every route that generateRouteOptions returns reports
\* integers with shadePercentage + uvExposure = 100.
C7_OptionsShadePlusUvIs100 ==
    pc = "returned" =>
        \A i \in 1..Len(routeOptions) :
            routeOptions[i].shadePercentage + routeOptions[i].uvExposure = 100

-----------------------------------------------------------------------------
(* Properties of findOptimalShadeRoute, under SpecCoolWalks *)

\* the physical length of a route: its segments' sun and shade distances
RECURSIVE PhysicalLength(_)
PhysicalLength(segments) ==
    IF segments = <<>> THEN 0
    ELSE Head(segments).sunDistance + Head(segments).shadeDistance
         + PhysicalLength(Tail(segments))

\* the experienced length of a route, at the call's alpha, in tenths
RECURSIVE Experienced(_)
Experienced(segments) ==
    IF segments = <<>> THEN 0
    ELSE Head(segments).sunDistance * alpha
         + Head(segments).shadeDistance * AlphaScale
         + Experienced(Tail(segments))

\* C9: on a non-empty list findOptimalShadeRoute returns as optimalIndex the
\* smallest index of minimal experienced length, and rankings that are a
\* permutation of 1..N in ascending order of experienced length, equal
\* lengths ranked in input order; so rankings[optimalIndex] = 1.
C9_OptimalAndRankings ==
    pc = "returned" =>
        LET n == Len(routes)
            len(i) == Experienced(routes[i].segments)
        IN  /\ optimal.optimalIndex \in 1..n
            /\ \A j \in 1..n : len(optimal.optimalIndex) <= len(j)
            /\ \A j \in 1..(optimal.optimalIndex - 1) : len(j) > len(optimal.optimalIndex)
            /\ optimal.optimalRoute = routes[optimal.optimalIndex]
            /\ DOMAIN optimal.rankings = 1..n
            /\ {optimal.rankings[i] : i \in 1..n} = 1..n
            /\ \A i, j \in 1..n :
                 (len(i) < len(j) \/ (len(i) = len(j) /\ i < j))
                    => optimal.rankings[i] < optimal.rankings[j]
            /\ optimal.rankings[optimal.optimalIndex] = 1

\* three routes, the minimum shared by the second and the third
C9_Witness ==
    /\ pc = "returned"
    /\ Len(routes) = 3
    /\ Experienced(routes[2].segments) = Experienced(routes[3].segments)
    /\ Experienced(routes[1].segments) > Experienced(routes[2].segments)
    /\ optimal.optimalIndex = 2
    /\ optimal.rankings = <<3, 1, 2>>

\* C10: at alpha = 1 the experienced length of a route is its physical
\* length, so findOptimalShadeRoute(routes, 1.0) selects a route of minimal
\* physical length.
C10_AlphaOneIsPhysical ==
    (pc = "returned" /\ alpha = AlphaScale) =>
        /\ \A i \in 1..Len(routes) :
             optimal.experiencedLengths[i]
                = AlphaScale * PhysicalLength(routes[i].segments)
        /\ \A j \in 1..Len(routes) :
             PhysicalLength(optimal.optimalRoute.segments)
                <= PhysicalLength(routes[j].segments)

\* at alpha = 1 the shortest route is chosen although another has more shade
C10_Witness ==
    /\ pc = "returned"
    /\ alpha = AlphaScale
    /\ Len(routes) >= 2
    /\ \E j \in 1..Len(routes) :
        /\ PhysicalLength(routes[j].segments)
             > PhysicalLength(optimal.optimalRoute.segments)
        /\ routes[j].totalShadeDistance > optimal.optimalRoute.totalShadeDistance

-----------------------------------------------------------------------------
(* coolwalks-routing.ts: calculateCoolWalkability, getRecommendedAlpha *)

\* a quotient a / b of two numbers, kept as the pair; den = 0 is the
\* division by zero of the code: NaN when num = 0, an infinity otherwise
Quotient(a, b) == [num |-> a, den |-> b]

\* the variables of the calls above, untouched by a call of another library
\* function
callerVars == <<start, end, shadows, buildings, options, openSet, closedSet,
                iterations, path, current, sunPosition, routeOptions, route,
                analysis, routes, alpha, optimal>>

\* every variable but pc, args and result
otherVars == <<callerVars, locals>>

NoOtherCall ==
    /\ start = Unused /\ end = Unused /\ shadows = Unused
    /\ buildings = Unused /\ options = Unused /\ openSet = Unused
    /\ closedSet = Unused /\ iterations = Unused /\ path = Unused
    /\ current = Unused /\ sunPosition = Unused /\ routeOptions = Unused
    /\ route = Unused /\ analysis = Unused /\ routes = Unused
    /\ alpha = Unused /\ optimal = Unused

\* Math.min(100, Math.max(0, Math.round(shadeScore * 0.6 + efficiencyScore * 0.4)))
\* with shadeScore = 100 * shade / total and
\* efficiencyScore = Math.max(0, 100 - (experienced / shortest - 1) * 100);
\* NaN when a term is 0 / 0
coolWalkabilityScore(shade, total, experienced, shortest) ==
    LET efficiency == IF 2 * shortest > experienced
                      THEN 200 * shortest - 100 * experienced ELSE 0
        score == MathRound(300 * shade * shortest + 2 * efficiency * total,
                           5 * total * shortest)
    IN  IF total = 0 /\ shade = 0 THEN NaN
        ELSE IF shortest = 0 /\ experienced = 0 THEN NaN
        ELSE IF total = 0 THEN 100
        ELSE IF shortest = 0 THEN MathRound(60 * shade, total)
        ELSE IF score > 100 THEN 100 ELSE score

\* calculateCoolWalkability(route, shortestRoute, alpha)
calculateCoolWalkability(r, shortestRoute, a) ==
    LET experiencedLength == calculateRouteExperiencedLength(r, a)
        shortestExperienced == calculateRouteExperiencedLength(shortestRoute, a)
        shadeRatio == Quotient(r.totalShadeDistance, r.totalDistance)
        shortestShadeRatio ==
            Quotient(shortestRoute.totalShadeDistance, shortestRoute.totalDistance)
    IN  [experiencedLength |-> experiencedLength,
         physicalLength |-> r.totalDistance,
         shadeRatio |-> shadeRatio,
         coolWalkabilityScore |->
            coolWalkabilityScore(r.totalShadeDistance, r.totalDistance,
                                 experiencedLength, shortestExperienced),
         comparisonToShortest |->
            [distanceIncrease |-> r.totalDistance - shortestRoute.totalDistance,
             distanceIncreasePercent |->
                Quotient((r.totalDistance - shortestRoute.totalDistance) * 100,
                         shortestRoute.totalDistance),
             shadeImprovement |->
                Quotient((shadeRatio.num * shortestShadeRatio.den
                            - shortestShadeRatio.num * shadeRatio.den) * 100,
                         shadeRatio.den * shortestShadeRatio.den)]]

-----------------------------------------------------------------------------
(* calculateCoolWalkability: SpecWalkability *)

\* the routes of CoolRoutes, a route without segments and one that stands still
WalkRoutes ==
    CoolRoutes \cup {CoolRoute("empty", <<>>), CoolRoute("still", <<Segment(0, 0)>>)}

InitWalkability ==
    /\ args \in [route : WalkRoutes, shortestRoute : WalkRoutes, alpha : Alphas]
    /\ result = Unused
    /\ pc = "call"
    /\ locals = Unused
    /\ NoOtherCall

CalculateCoolWalkability ==
    /\ pc = "call"
    /\ result' = calculateCoolWalkability(args.route, args.shortestRoute, args.alpha)
    /\ pc' = "returned"
    /\ UNCHANGED <<args, otherVars>>

NextWalkability == CalculateCoolWalkability

SpecWalkability == InitWalkability /\ [][NextWalkability]_vars

\* C11 (as claimed): the coolWalkabilityScore that calculateCoolWalkability
\* returns is a number within [0, 100], for every route and shortest route
\* of non-negative distances and every alpha >= 1, routes of zero total
\* distance and a shortest route of experienced length 0 included.
C11_ScoreWithin0And100 ==
    pc = "returned" =>
        /\ result.coolWalkabilityScore # NaN
        /\ result.coolWalkabilityScore \in 0..100

-----------------------------------------------------------------------------
(* getRecommendedAlpha: SpecAlpha *)

\* a UV index is held in tenths
UvScale == 10

\* the base alpha for a UV index, in tenths
baseAlpha(uvIndex) ==
    IF uvIndex <= 2 * UvScale THEN 10
    ELSE IF uvIndex <= 5 * UvScale THEN 13
    ELSE IF uvIndex <= 7 * UvScale THEN 16
    ELSE IF uvIndex <= 10 * UvScale THEN 20
    ELSE 25

\* (mutant) the sensitivity is used as it comes, not counted down from 7
sensitivityMultiplier_NotReversed(skinTypeSensitivity) ==
    10 + skinTypeSensitivity

\* 1 + (7 - skinTypeSensitivity) * 0.1, in tenths
sensitivityMultiplier(skinTypeSensitivity) ==
    10 + (7 - skinTypeSensitivity)

\* getRecommendedAlpha(uvIndex, skinTypeSensitivity), in tenths:
\* Math.round(baseAlpha * sensitivityMultiplier * 10) / 10
getRecommendedAlpha(uvIndex, skinTypeSensitivity) ==
    MathRound(baseAlpha(uvIndex) * sensitivityMultiplier(skinTypeSensitivity), 10)

\* UV indices -0.5, 0, 0.5, ... 12.5 and the six skin sensitivities
UvIndexes == {5 * k : k \in -1..25}

SkinSensitivities == 1..6

InitAlpha ==
    /\ args \in [uvIndex : UvIndexes, skinTypeSensitivity : SkinSensitivities]
    /\ result = Unused
    /\ pc = "call"
    /\ locals = Unused
    /\ NoOtherCall

GetRecommendedAlpha ==
    /\ pc = "call"
    /\ result' = getRecommendedAlpha(args.uvIndex, args.skinTypeSensitivity)
    /\ pc' = "returned"
    /\ UNCHANGED <<args, otherVars>>

NextAlpha == GetRecommendedAlpha

SpecAlpha == InitAlpha /\ [][NextAlpha]_vars

\* C12: getRecommendedAlpha is never below 1.0; for a fixed skin sensitivity
\* it does not decrease when the UV index grows, and for a fixed UV index it
\* does not decrease when the sensitivity number falls from 6 towards 1.
C12_AlphaMonotone ==
    pc = "returned" =>
        /\ result >= 10
        /\ \A uv \in UvIndexes :
             uv >= args.uvIndex =>
                getRecommendedAlpha(uv, args.skinTypeSensitivity) >= result
        /\ \A skin \in SkinSensitivities :
             skin <= args.skinTypeSensitivity =>
                getRecommendedAlpha(args.uvIndex, skin) >= result

\* a call whose value is exceeded both at a higher UV index and for a more
\* sensitive skin
C12_Witness ==
    /\ pc = "returned"
    /\ \E uv \in UvIndexes :
         /\ uv > args.uvIndex
         /\ getRecommendedAlpha(uv, args.skinTypeSensitivity) > result
    /\ \E skin \in SkinSensitivities :
         /\ skin < args.skinTypeSensitivity
         /\ getRecommendedAlpha(args.uvIndex, skin) > result

-----------------------------------------------------------------------------
(* scientific-uv-calculator.ts: calculateSafeExposureTime,
   evaluateExposureSafety *)

\* the Infinity of the code, kept apart from every number of minutes
Infinity == -2

SkinTypes == {"I", "II", "III", "IV", "V", "VI"}

BASE_EXPOSURE_TIME_MINUTES ==
    [skinType \in SkinTypes |->
        CASE skinType = "I" -> 67
          [] skinType = "II" -> 100
          [] skinType = "III" -> 200
          [] skinType = "IV" -> 300
          [] skinType = "V" -> 400
          [] skinType = "VI" -> 500]

\* (mutant) the base time multiplied by the UV index
roundedSafeTime_Product(baseTime, uvIndex) ==
    MathRound(baseTime * uvIndex, UvScale)

\* Math.round(baseTime / uvIndex), for uvIndex > 0 in tenths
roundedSafeTime(baseTime, uvIndex) ==
    MathRound(baseTime * UvScale, uvIndex)

\* calculateSafeExposureTime(uvIndex, skinType), in minutes
calculateSafeExposureTime(uvIndex, skinType) ==
    IF uvIndex <= 0 THEN Infinity
    ELSE roundedSafeTime(BASE_EXPOSURE_TIME_MINUTES[skinType], uvIndex)

-----------------------------------------------------------------------------
(* calculateSafeExposureTime: SpecSafeTime *)

\* the highest UV index of the calls, in tenths
MaxUvTenths == 130

\* UV indices -0.5, -0.4, ... up to MaxUvTenths / 10
SafeTimeUvIndexes == -5..MaxUvTenths

InitSafeTime ==
    /\ args \in [uvIndex : SafeTimeUvIndexes, skinType : SkinTypes]
    /\ result = Unused
    /\ pc = "call"
    /\ locals = Unused
    /\ NoOtherCall

CalculateSafeExposureTime ==
    /\ pc = "call"
    /\ result' = calculateSafeExposureTime(args.uvIndex, args.skinType)
    /\ pc' = "returned"
    /\ UNCHANGED <<args, otherVars>>

NextSafeTime == CalculateSafeExposureTime

SpecSafeTime == InitSafeTime /\ [][NextSafeTime]_vars

\* C13 (as claimed): calculateSafeExposureTime is Infinity for uvIndex <= 0
\* and, for each skin type, strictly decreasing in uvIndex over uvIndex > 0.
C13_StrictlyDecreasing ==
    pc = "returned" =>
        /\ args.uvIndex <= 0 => result = Infinity
        /\ args.uvIndex > 0 =>
            \A uv \in SafeTimeUvIndexes :
                uv > args.uvIndex =>
                    calculateSafeExposureTime(uv, args.skinType) < result

\* C13 (amended): calculateSafeExposureTime is Infinity for uvIndex <= 0; for
\* uvIndex > 0 it is a whole number of minutes >= 0 that never grows with
\* uvIndex, and it is strictly smaller at a higher UV index whenever the
\* unrounded quotients baseTime / uvIndex differ by more than one minute.
C13_NonIncreasing ==
    pc = "returned" =>
        /\ args.uvIndex <= 0 => result = Infinity
        /\ args.uvIndex > 0 =>
            /\ result >= 0
            /\ \A uv \in SafeTimeUvIndexes :
                uv > args.uvIndex =>
                    /\ calculateSafeExposureTime(uv, args.skinType) <= result
                    /\ BASE_EXPOSURE_TIME_MINUTES[args.skinType] * UvScale
                            * (uv - args.uvIndex) > uv * args.uvIndex
                        => calculateSafeExposureTime(uv, args.skinType) < result

\* a UV index above 0 that shares its safe time with a higher one and has a
\* longer safe time than another
C13_Witness ==
    /\ pc = "returned"
    /\ args.uvIndex > 0
    /\ \E uv \in SafeTimeUvIndexes :
         uv > args.uvIndex /\ calculateSafeExposureTime(uv, args.skinType) = result
    /\ \E uv \in SafeTimeUvIndexes :
         uv > args.uvIndex /\ calculateSafeExposureTime(uv, args.skinType) < result

-----------------------------------------------------------------------------
(* evaluateExposureSafety: SpecExposure *)

\* (mutant) "<=" in place of "<"
ratioBelow_OrEqual(exposureTimeMinutes, safeTime, num, den) ==
    IF safeTime = Infinity THEN TRUE
    ELSE IF safeTime = 0 THEN exposureTimeMinutes < 0
    ELSE exposureTimeMinutes * den <= num * safeTime

\* exposureTimeMinutes / safeTime < num / den, as the code's numbers decide it:
\* the quotient is 0 for an infinite safeTime and, for safeTime = 0, -Infinity,
\* NaN or +Infinity with the sign of exposureTimeMinutes (NaN is below nothing)
ratioBelow(exposureTimeMinutes, safeTime, num, den) ==
    IF safeTime = Infinity THEN TRUE
    ELSE IF safeTime = 0 THEN exposureTimeMinutes < 0
    ELSE exposureTimeMinutes * den < num * safeTime

\* evaluateExposureSafety(uvIndex, skinType, exposureTimeMinutes), without the
\* recommendation text
evaluateExposureSafety(uvIndex, skinType, exposureTimeMinutes) ==
    LET safeTime == calculateSafeExposureTime(uvIndex, skinType)
        timeRemaining == IF safeTime = Infinity THEN Infinity
                         ELSE safeTime - exposureTimeMinutes
        burnRisk ==
            IF ratioBelow(exposureTimeMinutes, safeTime, 1, 2) THEN "none"
            ELSE IF ratioBelow(exposureTimeMinutes, safeTime, 3, 4) THEN "low"
            ELSE IF ratioBelow(exposureTimeMinutes, safeTime, 1, 1) THEN "moderate"
            ELSE IF ratioBelow(exposureTimeMinutes, safeTime, 3, 2) THEN "high"
            ELSE "very_high"
    IN  [isSafe |-> ratioBelow(exposureTimeMinutes, safeTime, 1, 1),
         safeTimeRemaining |->
            IF timeRemaining = Infinity THEN Infinity
            ELSE IF timeRemaining > 0 THEN timeRemaining ELSE 0,
         burnRisk |-> burnRisk]

\* UV indices in tenths: below 0, 0, everyday ones, and two so high that the
\* rounded safe time is 0
ExposureUvIndexes == {-10, 0, 5, 10, 20, 50, 80, 110, 1400, 20000}

ExposureTimes == {-5, 0, 1, 3, 5, 6, 7, 8, 10, 13, 20, 34, 50, 67, 100, 101, 150, 400}

InitExposure ==
    /\ args \in [uvIndex : ExposureUvIndexes, skinType : SkinTypes,
                 exposureTimeMinutes : ExposureTimes]
    /\ result = Unused
    /\ pc = "call"
    /\ locals = Unused
    /\ NoOtherCall

EvaluateExposureSafety ==
    /\ pc = "call"
    /\ result' = evaluateExposureSafety(args.uvIndex, args.skinType,
                                        args.exposureTimeMinutes)
    /\ pc' = "returned"
    /\ UNCHANGED <<args, otherVars>>

NextExposure == EvaluateExposureSafety

SpecExposure == InitExposure /\ [][NextExposure]_vars

\* C14: evaluateExposureSafety puts ratio = elapsed / safeTime into the bands
\* ratio < 0.5 none, < 0.75 low, < 1.0 moderate, < 1.5 high, otherwise
\* very_high; isSafe holds exactly in the bands none, low and moderate;
\* safeTimeRemaining is never negative; with uvIndex <= 0 every elapsed time
\* is reported safe with band none.
C14_ExposureBands ==
    pc = "returned" =>
        LET elapsed == args.exposureTimeMinutes
            safeTime == calculateSafeExposureTime(args.uvIndex, args.skinType)
        IN  /\ safeTime > 0 =>
                /\ result.burnRisk = "none" <=> 2 * elapsed < safeTime
                /\ result.burnRisk = "low" <=>
                     (2 * elapsed >= safeTime /\ 4 * elapsed < 3 * safeTime)
                /\ result.burnRisk = "moderate" <=>
                     (4 * elapsed >= 3 * safeTime /\ elapsed < safeTime)
                /\ result.burnRisk = "high" <=>
                     (elapsed >= safeTime /\ 2 * elapsed < 3 * safeTime)
                /\ result.burnRisk = "very_high" <=> 2 * elapsed >= 3 * safeTime
            /\ (safeTime = 0 /\ elapsed >= 0) => result.burnRisk = "very_high"
            /\ result.isSafe <=> result.burnRisk \in {"none", "low", "moderate"}
            /\ result.safeTimeRemaining = Infinity \/ result.safeTimeRemaining >= 0
            /\ args.uvIndex <= 0 => (result.isSafe /\ result.burnRisk = "none")

\* the elapsed time equals the safe time: band high, not safe, nothing left
C14_Witness ==
    /\ pc = "returned"
    /\ args.exposureTimeMinutes > 0
    /\ args.exposureTimeMinutes
         = calculateSafeExposureTime(args.uvIndex, args.skinType)
    /\ result.burnRisk = "high"
    /\ ~result.isSafe
    /\ result.safeTimeRemaining = 0

-----------------------------------------------------------------------------
(* calculateAllShadows: SpecShadows *)

\* the longest building list of a call
MaxBuildings == 3

\* the sun on the horizon
Horizon == SunPosition(0, 0, 1, 0, -5)

\* at the Morning sun (tan = 1/20) Mast casts a shadow of exactly 500 m and
\* Tower one of 600 m; Slab has no height
Tower == Building("tower", Rect(300, 300, 500, 500), 30)
Mast == Building("mast", Rect(-500, 300, -300, 500), 25)
Slab == Building("slab", Rect(300, -500, 500, -300), 0)

ShadowBuildingLists ==
    UNION {[1..n -> {South, Tower, Mast, Slab}] : n \in 0..MaxBuildings}

InitShadows ==
    /\ args \in [buildings : ShadowBuildingLists,
                 sunPosition : SunPositions \cup {Horizon}]
    /\ result = Unused
    /\ pc = "call"
    /\ locals = Unused
    /\ NoOtherCall

CalculateAllShadows ==
    /\ pc = "call"
    /\ result' = calculateAllShadows(args.buildings, args.sunPosition)
    /\ pc' = "returned"
    /\ UNCHANGED <<args, otherVars>>

NextShadows == CalculateAllShadows

SpecShadows == InitShadows /\ [][NextShadows]_vars

\* the building's shadow length height / tan(altitude) is above 0 and at most
\* 500 m, for a sun above the horizon
LengthWithinLimits(building, sun) ==
    /\ building.height * sun.tanDen > 0
    /\ building.height * sun.tanDen <= MaxShadowMetres * sun.tanNum

\* C15: calculateAllShadows returns an empty list when the sun's altitude is
\* <= 0; otherwise it returns, in input order, one shadow carrying the
\* building's id for each building whose shadow length is above 0 and at most
\* 500 m, and none for any other building.
C15_OneShadowPerCastingBuilding ==
    pc = "returned" =>
        /\ args.sunPosition.altitude <= 0 => result = <<>>
        /\ args.sunPosition.altitude > 0 =>
            LET casting == SelectSeq(args.buildings,
                             LAMBDA b : LengthWithinLimits(b, args.sunPosition))
            IN  /\ Len(result) = Len(casting)
                /\ \A i \in 1..Len(result) :
                     result[i].buildingId = casting[i].id

\* by day, three buildings of which one has no height and one a shadow too
\* long: a single shadow, of exactly 500 m
C15_Witness ==
    /\ pc = "returned"
    /\ args.sunPosition = Morning
    /\ args.buildings = <<Tower, Mast, Slab>>
    /\ Len(result) = 1
    /\ result[1].buildingId = "mast"

-----------------------------------------------------------------------------
(* calculateRouteShadePercentage: SpecRouteShade *)

\* vertices of the polylines, in and out of the shadows Strip and Square
RoutePoints ==
    {Point(0, 0), Point(200, 200), Point(200, 1000), Point(600, 600),
     Point(1000, 1000)}

\* polylines of 0 to MaxGeometry vertices
Polylines == UNION {[1..n -> RoutePoints] : n \in 0..MaxGeometry}

InitRouteShade ==
    /\ args \in [route : Polylines, shadows : ShadowLists]
    /\ result = Unused
    /\ pc = "call"
    /\ locals = Unused
    /\ NoOtherCall

CalculateRouteShadePercentage ==
    /\ pc = "call"
    /\ result' = calculateRouteShadePercentage(args.route, args.shadows)
    /\ pc' = "returned"
    /\ UNCHANGED <<args, otherVars>>

NextRouteShade == CalculateRouteShadePercentage

SpecRouteShade == InitRouteShade /\ [][NextRouteShade]_vars

\* the samples taken on the edge from vertex i, and those of them in shade
SamplesTaken(i) == EdgeSamples(args.route[i], args.route[i + 1])

SamplesInShade(i) ==
    {j \in DOMAIN SamplesTaken(i) : isPointInShade(SamplesTaken(i)[j], args.shadows)}

RECURSIVE SumOver(_, _)
SumOver(count(_), n) == IF n = 0 THEN 0 ELSE count(n) + SumOver(count, n - 1)

\* C16: calculateRouteShadePercentage returns 0 when the polyline has fewer
\* than 2 points or there is no shadow; otherwise it returns
\* 100 * (samples in shade) / (samples taken), a value within [0, 100], and
\* every edge has at least one sample taken.
C16_RouteShadePercentage ==
    pc = "returned" =>
        /\ (Len(args.route) < 2 \/ args.shadows = <<>>) => result.num = 0
        /\ (Len(args.route) >= 2 /\ args.shadows # <<>>) =>
            LET edges == Len(args.route) - 1
                taken == SumOver(LAMBDA i : Len(SamplesTaken(i)), edges)
                shaded == SumOver(LAMBDA i : Cardinality(SamplesInShade(i)), edges)
            IN  /\ \A i \in 1..edges : Len(SamplesTaken(i)) >= 1
                /\ result.num * taken = 100 * shaded * result.den
                /\ result.num >= 0
                /\ result.num <= 100 * result.den
        /\ result.den > 0

\* a polyline of two edges, one of them of no length, partly in shade
C16_Witness ==
    /\ pc = "returned"
    /\ Len(args.route) = 3
    /\ args.route[2] = args.route[3]
    /\ args.shadows # <<>>
    /\ result.num > 0
    /\ result.num < 100 * result.den

-----------------------------------------------------------------------------
(* advanced-shade-calculator.ts: calculateShadePercentage, loop by loop:
   SpecShadeGrid, and FairSpecShadeGrid where the call keeps running *)

\* the counters totalPoints and shadedPoints stop counting here; no call that
\* returns counts this far
MaxSamples == 30

\* "(bounds.maxLat - bounds.minLat) / gridResolution"; the calls keep it whole
latStep == (args.bounds.maxLat - args.bounds.minLat) \div args.gridResolution

lngStep == (args.bounds.maxLng - args.bounds.minLng) \div args.gridResolution

Counted(n) == IF n < MaxSamples THEN n + 1 ELSE n

\* "totalPoints > 0 ? (shadedPoints / totalPoints) * 100 : 0", as num / den
shadePercentageOf(shadedPoints, totalPoints) ==
    IF totalPoints > 0
    THEN [num |-> shadedPoints * 100, den |-> totalPoints]
    ELSE [num |-> 0, den |-> 1]

GridBounds ==
    [minLat : {0}, minLng : {0}, maxLat : {0, 400, 800}, maxLng : {0, 400, 800}]

GridResolutions == {1, 2, 4}

InitShadeGrid ==
    /\ args \in [bounds : GridBounds, shadows : ShadowLists,
                 gridResolution : GridResolutions]
    /\ locals = [lat |-> args.bounds.minLat, lng |-> args.bounds.minLng,
                 totalPoints |-> 0, shadedPoints |-> 0]
    /\ result = Unused
    /\ pc = "rows"
    /\ NoOtherCall

\* the outer loop's test holds: the inner loop starts
EnterRow ==
    /\ pc = "rows"
    /\ locals.lat <= args.bounds.maxLat
    /\ locals' = [locals EXCEPT !.lng = args.bounds.minLng]
    /\ pc' = "columns"
    /\ UNCHANGED <<args, result, callerVars>>

\* the inner loop's test holds: its body, then "lng += lngStep"
SamplePoint ==
    /\ pc = "columns"
    /\ locals.lng <= args.bounds.maxLng
    /\ locals' = [locals EXCEPT
                    !.totalPoints = Counted(@),
                    !.shadedPoints =
                        IF isPointInShade(Point(locals.lat, locals.lng), args.shadows)
                        THEN Counted(@) ELSE @,
                    !.lng = @ + lngStep]
    /\ UNCHANGED <<pc, args, result, callerVars>>

\* the inner loop's test fails: "lat += latStep"
NextRow ==
    /\ pc = "columns"
    /\ locals.lng > args.bounds.maxLng
    /\ locals' = [locals EXCEPT !.lat = @ + latStep]
    /\ pc' = "rows"
    /\ UNCHANGED <<args, result, callerVars>>

\* the outer loop's test fails: the return
ReturnShadePercentage ==
    /\ pc = "rows"
    /\ locals.lat > args.bounds.maxLat
    /\ result' = shadePercentageOf(locals.shadedPoints, locals.totalPoints)
    /\ pc' = "returned"
    /\ UNCHANGED <<args, locals, callerVars>>

NextShadeGrid == EnterRow \/ SamplePoint \/ NextRow \/ ReturnShadePercentage

SpecShadeGrid == InitShadeGrid /\ [][NextShadeGrid]_vars

\* a call that can take a step takes it
FairSpecShadeGrid == SpecShadeGrid /\ WF_vars(NextShadeGrid)

\* C17 (as claimed): calculateShadePercentage classifies exactly
\* gridResolution * gridResolution sample points and returns
\* 100 * shaded / total, a value within [0, 100] that is 0 when there is no
\* shadow.
C17_GridOfResolutionSquared ==
    pc = "returned" =>
        /\ locals.totalPoints = args.gridResolution * args.gridResolution
        /\ result.num * locals.totalPoints = 100 * locals.shadedPoints * result.den
        /\ result.num >= 0
        /\ result.num <= 100 * result.den
        /\ args.shadows = <<>> => result.num = 0

\* C18 (as claimed): calculateShadePercentage terminates, for every bounds,
\* those of no height or no width included, with a value within [0, 100].
C18_GridTerminates ==
    <>(/\ pc = "returned"
       /\ result.num >= 0
       /\ result.num <= 100 * result.den)

-----------------------------------------------------------------------------
(* analyzeRouteShade on degenerate routes, under SpecAnalysis *)

\* C19 (as claimed): by day, analyzeRouteShade on a route of a single point,
\* or with no building, returns shadePercentage, shadedDistance,
\* exposedDistance and uvExposure that are all numbers, never NaN, with no
\* shade for the route of a single point.
C19_DegenerateRouteIsNumeric ==
    (/\ pc = "returned"
     /\ isSunAboveHorizon(sunPosition)
     /\ (Len(route.geometry) = 1 \/ buildings = <<>>)) =>
        /\ analysis.shadePercentage # NaN
        /\ analysis.shadedDistance # NaN
        /\ analysis.exposedDistance # NaN
        /\ analysis.uvExposure # NaN
        /\ Len(route.geometry) = 1 =>
            (analysis.shadePercentage = 0 /\ analysis.shadedDistance = 0)

-----------------------------------------------------------------------------
(* A Route's aggregate totals, under SpecWalkability: the routes are built
   with aggregateRouteInfo and handed to calculateCoolWalkability *)

\* C20 (as claimed): the totals that aggregateRouteInfo yields are the sums
\* over the segments, totalDistance = totalSunDistance + totalShadeDistance,
\* with shadeRatio = totalShadeDistance / totalDistance within [0, 1] and 0
\* for an empty or zero-length route; and the physicalLength and shadeRatio
\* that calculateCoolWalkability returns equal these segment-derived values.
C20_TotalsFromSegments ==
    pc = "returned" =>
        LET segments == args.route.segments
            agg == aggregateRouteInfo(segments)
        IN  /\ agg.totalDistance = PhysicalLength(segments)
            /\ agg.totalDistance = agg.totalSunDistance + agg.totalShadeDistance
            /\ agg.shadeRatio.den > 0
            /\ agg.shadeRatio.num >= 0
            /\ agg.shadeRatio.num <= agg.shadeRatio.den
            /\ IF agg.totalDistance = 0 THEN agg.shadeRatio.num = 0
               ELSE agg.shadeRatio.num * agg.totalDistance
                        = agg.totalShadeDistance * agg.shadeRatio.den
            /\ result.physicalLength = PhysicalLength(segments)
            /\ result.shadeRatio.den # 0
            /\ result.shadeRatio.num * agg.shadeRatio.den
                   = agg.shadeRatio.num * result.shadeRatio.den

-----------------------------------------------------------------------------
(* scientific-uv-calculator.ts: compareRoutes *)

MaxAnalyses == 3

TypeError == "TypeError"

\* (mutant) an equally shaded route of equal distance also replaces the best
replacesBest_OrEqual(cur, best) ==
    \/ cur.shadePercentage > best.shadePercentage
    \/ /\ cur.shadePercentage = best.shadePercentage
       /\ cur.route.distance <= best.route.distance

\* the callback of the reduce returns current rather than best
replacesBest(cur, best) ==
    \/ cur.shadePercentage > best.shadePercentage
    \/ /\ cur.shadePercentage = best.shadePercentage
       /\ cur.route.distance < best.route.distance

\* analyses.reduce(callback) from position i on, best being analyses[b]; the
\* object returned is named by its position in the array
RECURSIVE ReduceFrom(_, _, _)
ReduceFrom(analyses, i, b) ==
    IF i > Len(analyses) THEN b
    ELSE ReduceFrom(analyses, i + 1,
                    IF replacesBest(analyses[i], analyses[b]) THEN i ELSE b)

\* compareRoutes(analyses): reduce without an initial value starts from the
\* first element and throws on an empty array
compareRoutes(analyses) ==
    IF analyses = <<>> THEN TypeError
    ELSE ReduceFrom(analyses, 2, 1)

\* analyses as analyzeRouteShade reports them: a whole percentage and the
\* route's distance in metres
ComparedAnalyses ==
    [shadePercentage : {0, 50, 100}, route : [distance : {100, 200}]]

AnalysisLists ==
    UNION {[1..n -> ComparedAnalyses] : n \in 0..MaxAnalyses}

InitCompare ==
    /\ args \in [analyses : AnalysisLists]
    /\ result = Unused
    /\ pc = "call"
    /\ locals = Unused
    /\ NoOtherCall

CompareRoutes ==
    /\ pc = "call"
    /\ result' = compareRoutes(args.analyses)
    /\ pc' = "returned"
    /\ UNCHANGED <<args, otherVars>>

NextCompare == CompareRoutes

SpecCompare == InitCompare /\ [][NextCompare]_vars

\* C21: on a non-empty list compareRoutes returns an element of the list
\* whose shadePercentage is maximal and, among those of maximal
\* shadePercentage, whose route distance is minimal; among the analyses equal
\* in both it is the earliest of the input order.
C21_BestShadeThenShortest ==
    (pc = "returned" /\ args.analyses # <<>>) =>
        LET analyses == args.analyses
            best == analyses[result]
        IN  /\ result \in 1..Len(analyses)
            /\ \A i \in 1..Len(analyses) :
                 /\ analyses[i].shadePercentage <= best.shadePercentage
                 /\ analyses[i].shadePercentage = best.shadePercentage =>
                        analyses[i].route.distance >= best.route.distance
                 /\ (/\ analyses[i].shadePercentage = best.shadePercentage
                     /\ analyses[i].route.distance = best.route.distance) =>
                        i >= result

\* a call where a less shaded analysis comes first and an analysis equal to
\* the chosen one comes after it
C21_Witness ==
    /\ pc = "returned"
    /\ Len(args.analyses) = MaxAnalyses
    /\ result = 2
    /\ args.analyses[1].shadePercentage < args.analyses[2].shadePercentage
    /\ args.analyses[3] = args.analyses[2]

-----------------------------------------------------------------------------
(* analyzeRouteShade at night, under SpecAnalysis *)

\* C22: when the sun is below the horizon at the route's first point,
\* analyzeRouteShade returns shadePercentage 100, shadedDistance equal to the
\* route's distance, exposedDistance 0, uvExposure 0 and isRecommended TRUE,
\* whatever buildings it is given.
C22_NightIsAllShade ==
    (pc = "returned" /\ sunPosition.altitude <= 0) =>
        analysis = [route |-> route, shadePercentage |-> 100,
                    shadedDistance |-> route.distance, exposedDistance |-> 0,
                    uvExposure |-> 0, isRecommended |-> TRUE]

\* a night call for a route that the same buildings leave partly in the sun
\* at noon
C22_Witness ==
    /\ pc = "returned"
    /\ sunPosition = Night
    /\ buildings # <<>>
    /\ route.distance > 0
    /\ analyzeRouteShade(route, buildings, Noon).shadePercentage \in 1..99
    /\ analysis.shadePercentage = 100

-----------------------------------------------------------------------------
(* Calls of generateShadeOptimizedRoute, calculateAllShadows and
   calculateRouteShadePercentage on the same caller's arrays, interleaved:
   SpecCalls *)

\* two calls with equal inputs and another call
Calls == {1, 2, 3}

\* (mutant) openSet, closedSet and iterations are module-level: one frame
frameOf_Shared(k) == 1

\* "const openSet", "const closedSet", "let iterations" are declared in the
\* body of generateShadeOptimizedRoute: call k has a frame of its own
frameOf(k) == k

CallArgs ==
    [op : {"generateShadeOptimizedRoute", "calculateAllShadows",
           "calculateRouteShadePercentage"},
     end : {Point(0, 1200), Point(660, 940)}]

\* what one call returns when nothing else runs
Outcome(a) ==
    CASE a.op = "generateShadeOptimizedRoute" ->
            generateShadeOptimizedRoute(start, a.end, shadows, buildings, options)
      [] a.op = "calculateAllShadows" ->
            calculateAllShadows(buildings, sunPosition)
      [] a.op = "calculateRouteShadePercentage" ->
            calculateRouteShadePercentage(route, shadows)

InitCalls ==
    /\ start = Point(0, 0)
    /\ options = [DEFAULT_OPTIONS EXCEPT !.maxDetour = 0]
    /\ buildings \in {<<>>, <<Block>>}
    /\ shadows = <<Strip>>
    /\ route = <<Point(0, 0), Point(200, 1000)>>
    /\ sunPosition = Noon
    /\ args \in {a \in [Calls -> CallArgs] : a[1] = a[2]}
    /\ pc = [k \in Calls |-> "call"]
    /\ locals = [k \in Calls |-> Unused]
    /\ result = [k \in Calls |-> Unused]
    /\ end = Unused /\ openSet = Unused /\ closedSet = Unused
    /\ iterations = Unused /\ path = Unused /\ current = Unused
    /\ routeOptions = Unused /\ analysis = Unused /\ routes = Unused
    /\ alpha = Unused /\ optimal = Unused

\* the variables no call writes: the caller's arrays and the other values
heapVars == <<start, end, shadows, buildings, options, openSet, closedSet,
              iterations, path, current, sunPosition, routeOptions, route,
              analysis, routes, alpha, optimal, args>>

\* call k enters generateShadeOptimizedRoute: its locals are initialised
EnterSearch(k) ==
    /\ pc[k] = "call"
    /\ args[k].op = "generateShadeOptimizedRoute"
    /\ locals' = [locals EXCEPT ![frameOf(k)] = SearchStart(start, args[k].end)]
    /\ pc' = [pc EXCEPT ![k] = "loop"]
    /\ UNCHANGED <<result, heapVars>>

\* one pass of call k through the body of the while loop
IterateCall(k) ==
    /\ pc[k] = "loop"
    /\ LoopCondition(locals[frameOf(k)])
    /\ LET st == LoopIteration(locals[frameOf(k)], start, args[k].end,
                               shadows, buildings, options)
       IN  /\ locals' = [locals EXCEPT ![frameOf(k)] = st]
           /\ IF st.pc = "reconstructed"
              THEN /\ result' = [result EXCEPT ![k] = st.path]
                   /\ pc' = [pc EXCEPT ![k] = "returned"]
              ELSE UNCHANGED <<result, pc>>
    /\ UNCHANGED heapVars

\* call k leaves the loop without a path
ReturnDirectCall(k) ==
    /\ pc[k] = "loop"
    /\ ~LoopCondition(locals[frameOf(k)])
    /\ result' = [result EXCEPT ![k] = generateDirectRoute(start, args[k].end)]
    /\ pc' = [pc EXCEPT ![k] = "returned"]
    /\ UNCHANGED <<locals, heapVars>>

\* call k is calculateAllShadows(buildings, sunPosition, latitude)
CallAllShadows(k) ==
    /\ pc[k] = "call"
    /\ args[k].op = "calculateAllShadows"
    /\ result' = [result EXCEPT ![k] = calculateAllShadows(buildings, sunPosition)]
    /\ pc' = [pc EXCEPT ![k] = "returned"]
    /\ UNCHANGED <<locals, heapVars>>

\* call k is calculateRouteShadePercentage(route, shadows)
CallRouteShade(k) ==
    /\ pc[k] = "call"
    /\ args[k].op = "calculateRouteShadePercentage"
    /\ result' = [result EXCEPT ![k] = calculateRouteShadePercentage(route, shadows)]
    /\ pc' = [pc EXCEPT ![k] = "returned"]
    /\ UNCHANGED <<locals, heapVars>>

NextCalls ==
    \E k \in Calls :
        \/ EnterSearch(k)
        \/ IterateCall(k)
        \/ ReturnDirectCall(k)
        \/ CallAllShadows(k)
        \/ CallRouteShade(k)

SpecCalls == InitCalls /\ [][NextCalls]_vars

\* C23, the results: a call returns what it returns when it runs alone, so
\* two calls with equal inputs return equal outputs whatever is interleaved
\* between or during them.
C23_EqualInputsEqualOutputs ==
    \A j \in Calls :
        pc[j] = "returned" =>
            /\ result[j] = Outcome(args[j])
            /\ \A k \in Calls :
                 (pc[k] = "returned" /\ args[k] = args[j]) =>
                     result[k] = result[j]

-----------------------------------------------------------------------------
(* The list generateRouteOptions returns, under SpecOptions *)

\* C24: generateRouteOptions returns exactly three routes, with the ids
\* shade-priority, balanced and fastest each exactly once, in non-increasing
\* order of their reported shadePercentage, each with shadePercentage and
\* uvExposure within 0..100 and a non-empty coordinate list.
C24_ThreeOptionsSortedByShade ==
    pc = "returned" =>
        /\ Len(routeOptions) = 3
        /\ \A id \in {"shade-priority", "balanced", "fastest"} :
             Cardinality({i \in 1..Len(routeOptions) : routeOptions[i].id = id}) = 1
        /\ \A i \in 1..(Len(routeOptions) - 1) :
             routeOptions[i].shadePercentage >= routeOptions[i + 1].shadePercentage
        /\ \A i \in 1..Len(routeOptions) :
             /\ routeOptions[i].shadePercentage \in 0..100
             /\ routeOptions[i].uvExposure \in 0..100
             /\ Len(routeOptions[i].coordinates) > 0

\* a call whose sort moved the straight route to the front, ahead of a less
\* shaded searched route
C24_Witness ==
    /\ pc = "returned"
    /\ Len(routeOptions) = 3
    /\ routeOptions[1].id = "fastest"
    /\ routeOptions[1].shadePercentage > routeOptions[3].shadePercentage
    /\ routeOptions[3].shadePercentage > 0

-----------------------------------------------------------------------------
(* The heuristic against the cost of the path found, under Spec *)

\* the parent chain of the extracted goal node, the node last
GoalChain == Append(current.parent, Point(current.lat, current.lon))

\* the cost the search charges for the grid path chain[i], ..., chain[Len]:
\* each step's distance times the shade cost of the cell stepped into, in
\* the units of g
RECURSIVE CostAlong(_, _)
CostAlong(chain, i) ==
    IF i >= Len(chain) THEN 0
    ELSE calculateDistance(chain[i].latitude, chain[i].longitude,
                           chain[i + 1].latitude, chain[i + 1].longitude)
            * shadeCost(chain[i + 1], shadows, options)
         + CostAlong(chain, i + 1)

\* h of a cell: the distance to end, in the units of g
Heuristic(p) ==
    2 * calculateDistance(p.latitude, p.longitude, end.latitude, end.longitude)

\* C25 (as claimed): h is an admissible lower bound under the edge cost the
\* search uses: for every node, h(node) is at most the cost of any grid path
\* from that node to a goal node; here for the nodes of the path found and
\* the grid path the search found from each of them to its goal node.
C25_HeuristicAdmissible ==
    pc = "reconstructed" =>
        \A i \in 1..Len(GoalChain) :
            Heuristic(GoalChain[i]) <= CostAlong(GoalChain, i)

-----------------------------------------------------------------------------
(* The open set as a min-priority queue keyed on f, against the sorted
   array of the code, under Spec *)

\* the position of the first node of least f in the queue, from i on, best
\* being the position found so far
RECURSIVE MinFFrom(_, _, _)
MinFFrom(queue, i, best) ==
    IF i > Len(queue) THEN best
    ELSE MinFFrom(queue, i + 1, IF queue[i].f < queue[best].f THEN i ELSE best)

\* the queue without its element at position i
RemoveAt(queue, i) == SubSeq(queue, 1, i - 1) \o SubSeq(queue, i + 1, Len(queue))

\* one iteration of the loop with extract-min in place of sort and shift:
\* the node of least f leaves the queue, the earliest of the queue among
\* equals, and the other nodes stay where they are
QueueIteration(st, s, e, shadowList, buildingList, opts) ==
    LET i == MinFFrom(st.openSet, 2, 1)
        cur == st.openSet[i]
        rest == RemoveAt(st.openSet, i)
        currentKey == getKey(cur.lat, cur.lon)
        closed == st.closedSet \cup {currentKey}
    IN  IF isNearEnd(cur.lat, cur.lon, e)
        THEN [st EXCEPT !.openSet = rest, !.iterations = @ + 1, !.current = cur,
                        !.pc = "reconstructed", !.path = ReconstructPath(cur, e)]
        ELSE IF currentKey \in st.closedSet
        THEN [st EXCEPT !.openSet = rest, !.iterations = @ + 1, !.current = cur]
        ELSE [st EXCEPT !.openSet = VisitNeighbors(rest, closed, cur,
                                        getNeighbors(cur, buildingList),
                                        s, e, shadowList, opts),
                        !.closedSet = closed,
                        !.iterations = @ + 1, !.current = cur]

\* the search with the queue after n passes of the loop and, if the loop then
\* ends without a path, the return of the straight route
RECURSIVE QueueAfter(_)
QueueAfter(n) ==
    IF n = 0 THEN SearchStart(start, end)
    ELSE LET st == QueueAfter(n - 1)
         IN  IF st.pc = "loop" /\ LoopCondition(st)
             THEN QueueIteration(st, start, end, shadows, buildings, options)
             ELSE st

QueueOutcome(st) ==
    IF st.pc = "loop" /\ ~LoopCondition(st)
    THEN ReturnDirectRoute(st, start, end)
    ELSE st

OpenNodes(open) == {open[i] : i \in 1..Len(open)}

\* the search with the queue has expanded the same nodes in the same order
\* and holds the same open nodes, closed cells and returned path
SameAsQueue ==
    LET q == IF pc = "direct" THEN QueueOutcome(QueueAfter(iterations))
             ELSE QueueAfter(iterations)
    IN  /\ q.current = current
        /\ q.iterations = iterations
        /\ OpenNodes(q.openSet) = OpenNodes(openSet)
        /\ Len(q.openSet) = Len(openSet)
        /\ q.closedSet = closedSet
        /\ q.pc = pc
        /\ q.path = path

\* the node an iteration removes has the least f of the open set
RemovesLeastF ==
    (pc = "loop" /\ LoopCondition(SearchState) /\ iterations' = iterations + 1) =>
        /\ \E i \in 1..Len(openSet) : openSet[i] = current'
        /\ \A i \in 1..Len(openSet) : current'.f <= openSet[i].f

ExtractsEarliestLeastF ==
    (pc = "loop" /\ LoopCondition(SearchState) /\ iterations' = iterations + 1) =>
        /\ \E i \in 1..Len(openSet) :
             /\ openSet[i] = current'
             /\ \A j \in 1..(i - 1) : openSet[j].f > current'.f
             /\ \A j \in 1..Len(openSet) : openSet[j].f >= current'.f
        /\ LET q == QueueIteration(SearchState, start, end, shadows,
                                   buildings, options)
           IN  /\ q.current = current'
               /\ OpenNodes(q.openSet) = OpenNodes(openSet')
               /\ Len(q.openSet) = Len(openSet')
               /\ q.closedSet = closedSet'
               /\ q.pc = pc'
               /\ q.path = path'

-----------------------------------------------------------------------------
(* The shape of a reconstructed path, under Spec *)

\* q is one gridSize step from p in latitude and/or longitude
GridNeighbour(p, q) ==
    /\ q.latitude - p.latitude \in {-gridSize, 0, gridSize}
    /\ q.longitude - p.longitude \in {-gridSize, 0, gridSize}
    /\ q # p

\* C27: a reconstructed path is the parent chain of the extracted goal node,
\* root first, followed by end: its first vertex is start, each later vertex
\* before the appended end is one of the 8 grid neighbours of its
\* predecessor, the vertex before the appended end is within 20 m of end,
\* and no grid cell occurs twice in the chain.
C27_PathIsParentChain ==
    pc = "reconstructed" =>
        LET n == Len(path) - 1
        IN  /\ n >= 1
            /\ path[n + 1] = end
            /\ SubSeq(path, 1, n) = GoalChain
            /\ path[1] = start
            /\ \A i \in 2..n : GridNeighbour(path[i - 1], path[i])
            /\ calculateDistance(path[n].latitude, path[n].longitude,
                                 end.latitude, end.longitude) < GoalRadius
            /\ \A i, j \in 1..n :
                 i # j => getKey(path[i].latitude, path[i].longitude)
                            # getKey(path[j].latitude, path[j].longitude)

\* a reconstructed path that goes round a building with both a straight and
\* a diagonal step
C27_Witness ==
    /\ pc = "reconstructed"
    /\ buildings # <<>>
    /\ Len(path) >= 6
    /\ \E i \in 2..(Len(path) - 1) :
         /\ path[i].latitude = path[i - 1].latitude
    /\ \E i \in 2..(Len(path) - 1) :
         /\ path[i].latitude # path[i - 1].latitude
         /\ path[i].longitude # path[i - 1].longitude

-----------------------------------------------------------------------------
(* The open and closed sets, under Spec *)

KeyOf(node) == getKey(node.lat, node.lon)

\* the open set holds at most one node per key, and none of a closed key
OpenSetIsKeyed ==
    pc = "loop" =>
        /\ \A i, j \in 1..Len(openSet) :
             KeyOf(openSet[i]) = KeyOf(openSet[j]) => i = j
        /\ \A i \in 1..Len(openSet) : KeyOf(openSet[i]) \notin closedSet

\* an iteration extracts a node of a key that is not closed, and an open
\* node gives way only to a node of the same key and a smaller g
ClosesAndReplacesOnce ==
    (pc = "loop" /\ LoopCondition(SearchState) /\ iterations' = iterations + 1) =>
        /\ KeyOf(current') \notin closedSet
        /\ pc' = "loop" =>
             /\ closedSet' = closedSet \cup {KeyOf(current')}
             /\ \A i \in 1..Len(openSet), j \in 1..Len(openSet') :
                  (/\ KeyOf(openSet[i]) = KeyOf(openSet'[j])
                   /\ openSet[i] # openSet'[j]) =>
                      openSet'[j].g < openSet[i].g

\* C28: throughout the search the open set holds at most one node per grid
\* cell key and no open node's key is in the closed set; each cell is
\* expanded at most once, an open node is replaced only by a node of
\* strictly smaller g for the same cell, and the check for an already closed
\* node after the extraction never fires.
C28_OneOpenNodePerCell ==
    /\ []OpenSetIsKeyed
    /\ [][ClosesAndReplacesOnce]_vars

\* the state of the search after n passes of the loop
RECURSIVE SearchAfter(_)
SearchAfter(n) ==
    IF n = 0 THEN SearchStart(start, end)
    ELSE LoopIteration(SearchAfter(n - 1), start, end, shadows, buildings, options)

\* the last iteration has replaced an open node by one of a smaller g
C28_Witness ==
    /\ pc = "loop"
    /\ iterations > 0
    /\ LET before == SearchAfter(iterations - 1).openSet
       IN  \E i \in 1..Len(before), j \in 1..Len(openSet) :
             /\ KeyOf(before[i]) = KeyOf(openSet[j])
             /\ openSet[j].g < before[i].g

-----------------------------------------------------------------------------
(* The length of the path found without a shade discount, against the
   shortest grid paths: SpecShortest *)

\* the grid paths compared stay within this many cells of start
MaxOffset == 12

\* no grid path reaches the cell: its least length is infinite
Unreached == Infinity

Offsets == (-MaxOffset)..MaxOffset

\* the cells of the grid through start, by their offset from start in cells
Cells == Offsets \X Offsets

CellPoint(s, c) == Point(s.latitude + c[1] * gridSize, s.longitude + c[2] * gridSize)

\* the length of the step in direction d, in half centimetres
StepLength(d) ==
    calculateDistance(0, 0, directions[d][1] * gridSize, directions[d][2] * gridSize)

\* only start is reached, by the path of no step
OnlyStart == [c \in Cells |-> IF c = <<0, 0>> THEN 0 ELSE Unreached]

\* One more step: from the least physical lengths of the grid paths of at
\* most n steps from start to each cell, those of at most n + 1 steps.  A
\* path steps only into cells outside the buildings that pass the detour
\* test of the search.
Relaxed(shortest, a) ==
    LET Through(c, d) ==
            LET p == <<c[1] - directions[d][1], c[2] - directions[d][2]>>
            IN  IF p \in Cells /\ shortest[p] # Unreached
                THEN shortest[p] + StepLength(d)
                ELSE Unreached
        Arrivals(c) ==
            LET lengths == {Through(c, d) : d \in 1..Len(directions)} \ {Unreached}
            IN  IF lengths = {} THEN {}
                ELSE LET l == CHOOSE x \in lengths : \A y \in lengths : x <= y
                     IN  IF \/ isInsideBuilding(CellPoint(a.start, c), a.buildings)
                            \/ exceedsMaxDistance(2 * l, CellPoint(a.start, c),
                                                  a.start, a.end, a.options)
                         THEN {}
                         ELSE {l}
    IN  [c \in Cells |->
            LET lengths == Arrivals(c) \cup ({shortest[c]} \ {Unreached})
            IN  IF lengths = {} THEN Unreached
                ELSE CHOOSE x \in lengths : \A y \in lengths : x <= y]

\* the total lengths, final hop to end included, of the shortest grid paths
\* that end at a cell within the goal radius of end
GoalLengths(shortest, a) ==
    {shortest[c] + calculateDistance(CellPoint(a.start, c).latitude,
                                     CellPoint(a.start, c).longitude,
                                     a.end.latitude, a.end.longitude) :
        c \in {x \in Cells :
                 /\ shortest[x] # Unreached
                 /\ isNearEnd(CellPoint(a.start, x).latitude,
                              CellPoint(a.start, x).longitude, a.end)}}

\* searches without a discounted cell: no shadow, or prioritizeShade false
UndiscountedCalls ==
    {a \in [start : StartPoints,
            end : {Point(0, 1200), Point(660, 940), Point(1400, 600)},
            buildings : {<<>>, <<Wall>>, <<Pillar>>, <<Home, Wall>>},
            shadows : {<<>>, <<Strip>>},
            options : [prioritizeShade : BOOLEAN, maxDetour : {0, 15, 30, 100},
                       walkingSpeed : {45}]] :
        (a.shadows = <<>>) # (~a.options.prioritizeShade)}

InitShortest ==
    /\ args \in UndiscountedCalls
    /\ result = Unused
    /\ pc = "call"
    /\ locals = OnlyStart
    /\ NoOtherCall

\* the call: the state in which the search ends
SearchShortest ==
    /\ pc = "call"
    /\ result' = RunSearch(SearchStart(args.start, args.end), args.start, args.end,
                           args.shadows, args.buildings, args.options)
    /\ pc' = "returned"
    /\ UNCHANGED <<args, otherVars>>

\* the grid paths of one more step are taken into the comparison
LongerPaths ==
    /\ pc = "returned"
    /\ Relaxed(locals, args) # locals
    /\ locals' = Relaxed(locals, args)
    /\ UNCHANGED <<pc, args, result, callerVars>>

\* every grid path is in the comparison
AllPaths ==
    /\ pc = "returned"
    /\ Relaxed(locals, args) = locals
    /\ pc' = "compared"
    /\ UNCHANGED <<args, result, otherVars>>

NextShortest == SearchShortest \/ LongerPaths \/ AllPaths

SpecShortest == InitShortest /\ [][NextShortest]_vars

\* C29: when no cell is discounted for shade and the search succeeds within
\* its budget, the returned path has the least total physical length, the
\* final hop to end included, among the 8-connected grid paths from start
\* that avoid building cells, respect the detour bound and end at a cell
\* within 20 m of end.
C29_ShortestWithoutDiscount ==
    (pc \in {"returned", "compared"} /\ result.pc = "reconstructed") =>
        \A l \in GoalLengths(locals, args) :
            calculateRouteDistance(result.path) <= l

\* a successful search round a building: its path is longer than the
\* straight line and as long as the shortest of all the grid paths
C29_Witness ==
    /\ pc = "compared"
    /\ result.pc = "reconstructed"
    /\ args.buildings # <<>>
    /\ calculateRouteDistance(result.path) > directDistance(args.start, args.end)
    /\ calculateRouteDistance(result.path) \in GoalLengths(locals, args)

-----------------------------------------------------------------------------
(* The geocoding service: waitForRateLimit, searchAddress, reverseGeocode:
   SpecGeocoding.  Times are in milliseconds. *)

MIN_REQUEST_INTERVAL == 1000

\* the clock is read in steps of TickMs and the calls are followed until
\* MaxTime
TickMs == MIN_REQUEST_INTERVAL \div 4
MaxTime == 3000

\* the calls of searchAddress and reverseGeocode that are made
Callers == {1, 2, 3}

\* locals holds the module's lastRequestTime, the clock that Date.now()
\* reads, and the time each pending setTimeout is due; result holds the
\* times at which the requests were sent, in order
lastRequestTime == locals.lastRequestTime
DateNow == locals.now

InitGeocoding ==
    /\ args \in [Callers -> {"searchAddress", "reverseGeocode"}]
    /\ pc = [k \in Callers |-> "idle"]
    /\ locals = [lastRequestTime |-> 0, now |-> MIN_REQUEST_INTERVAL,
                 due |-> [k \in Callers |-> 0]]
    /\ result = <<>>
    /\ NoOtherCall

\* "lastRequestTime = Date.now()" and the return of waitForRateLimit, after
\* which caller k builds its URL and calls fetch
SetTimeAndFetch(k) ==
    /\ locals' = [locals EXCEPT !.lastRequestTime = DateNow]
    /\ result' = Append(result, DateNow)
    /\ pc' = [pc EXCEPT ![k] = "fetching"]

\* caller k calls searchAddress or reverseGeocode, which runs
\* waitForRateLimit up to its await or, when there is nothing to wait for,
\* to its end
Call(k) ==
    /\ pc[k] = "idle"
    /\ LET timeSinceLastRequest == DateNow - lastRequestTime
           waitTime == MIN_REQUEST_INTERVAL - timeSinceLastRequest
       IN  IF timeSinceLastRequest < MIN_REQUEST_INTERVAL
           THEN /\ locals' = [locals EXCEPT !.due[k] = DateNow + waitTime]
                /\ pc' = [pc EXCEPT ![k] = "waiting"]
                /\ UNCHANGED result
           ELSE SetTimeAndFetch(k)
    /\ UNCHANGED <<args, callerVars>>

\* the timer of caller k fires, not before it is due, and waitForRateLimit
\* resumes after its await
TimerFires(k) ==
    /\ pc[k] = "waiting"
    /\ DateNow >= locals.due[k]
    /\ SetTimeAndFetch(k)
    /\ UNCHANGED <<args, callerVars>>

\* time passes
Tick ==
    /\ DateNow + TickMs <= MaxTime
    /\ locals' = [locals EXCEPT !.now = @ + TickMs]
    /\ UNCHANGED <<pc, args, result, callerVars>>

NextGeocoding ==
    \/ \E k \in Callers : Call(k) \/ TimerFires(k)
    \/ Tick

SpecGeocoding == InitGeocoding /\ [][NextGeocoding]_vars

\* C30 (as claimed): any two requests issued by searchAddress or
\* reverseGeocode are sent at least MIN_REQUEST_INTERVAL apart, also when a
\* call starts while an earlier call is waiting inside waitForRateLimit.
C30_RequestsSpacedApart ==
    \A i, j \in 1..Len(result) :
        i < j => result[j] - result[i] >= MIN_REQUEST_INTERVAL

====
